---------------------------- MODULE Spec2Model ----------------------------
(***************************************************************************)
(* A model of the text/JSON serialization layer of brew-guide              *)
(* (src/lib/jsonUtils.ts): the readable-text formatters, the lenient text  *)
(* parsers, the JSON method codec and the dispatcher extractJsonFromText.  *)
(*                                                                         *)
(* A JavaScript string is a sequence of characters.  An ASCII character    *)
(* is the one-character TLA+ string; any other character is written by its *)
(* code point, "u6C34" for U+6C34.  The comment above each literal gives   *)
(* the source text.  The only line terminator of the model's alphabet is   *)
(* "\n", and the alphabet has no backslash.                                *)
(***************************************************************************)
EXTENDS Integers, Sequences, FiniteSets, TLC

VARIABLES
    pc,        \* the call that comes next: "format", "extract", "json",
               \* "done", or "idle" where calls follow one another freely
    method,    \* the Method given to methodToReadableText
    text,      \* the string given to the parser
    result,    \* the value returned by the last parser call
    now,       \* Date.now()
    calls      \* the imports made so far: function, input, clock, random
               \* suffix, and the id of the Method returned

vars == <<pc, method, text, result, now, calls>>

----------------------------------------------------------------------------
(* String literals of src/lib/jsonUtils.ts *)

\* 【冲煮方案】
MethodHeader ==
    <<"u3010", "u51B2", "u716E", "u65B9", "u6848", "u3011">>

\* 咖啡粉量:
LabelCoffee ==
    <<"u5496", "u5561", "u7C89", "u91CF", ":">>

\* 水量:
LabelWater ==
    <<"u6C34", "u91CF", ":">>

\* 比例:
LabelRatio ==
    <<"u6BD4", "u4F8B", ":">>

\* 研磨度:
LabelGrindSize ==
    <<"u7814", "u78E8", "u5EA6", ":">>

\* 水温:
LabelTemp ==
    <<"u6C34", "u6E29", ":">>

\* 未设置
Unset ==
    <<"u672A", "u8BBE", "u7F6E">>

\* 冲煮步骤:
StagesHeader ==
    <<"u51B2", "u716E", "u6B65", "u9AA4", ":">>

\*  (注水
PourTimePrefix ==
    <<" ", "(", "u6CE8", "u6C34">>

\* 秒)
PourTimeSuffix ==
    <<"u79D2", ")">>

\* 中心注水
CenterText ==
    <<"u4E2D", "u5FC3", "u6CE8", "u6C34">>

\* 绕圈注水
CircleText ==
    <<"u7ED5", "u5708", "u6CE8", "u6C34">>

\* 冰块注水
IceText ==
    <<"u51B0", "u5757", "u6CE8", "u6C34">>

\* 其他方式
OtherText ==
    <<"u5176", "u4ED6", "u65B9", "u5F0F">>

\* --- 复制以上内容可分享和导入 ---
MethodFooter ==
    <<"-", "-", "-", " ", "u590D", "u5236", "u4EE5", "u4E0A", "u5185",
      "u5BB9", "u53EF", "u5206", "u4EAB", "u548C", "u5BFC", "u5165", " ",
      "-", "-", "-">>

\* @DATA_TYPE:COFFEE_BEAN@
MarkerBean ==
    <<"@", "D", "A", "T", "A", "_", "T", "Y", "P", "E", ":", "C", "O", "F",
      "F", "E", "E", "_", "B", "E", "A", "N", "@">>

\* @DATA_TYPE:BREWING_METHOD@
MarkerMethod ==
    <<"@", "D", "A", "T", "A", "_", "T", "Y", "P", "E", ":", "B", "R", "E",
      "W", "I", "N", "G", "_", "M", "E", "T", "H", "O", "D", "@">>

\* @DATA_TYPE:BREWING_NOTE@
MarkerNote ==
    <<"@", "D", "A", "T", "A", "_", "T", "Y", "P", "E", ":", "B", "R", "E",
      "W", "I", "N", "G", "_", "N", "O", "T", "E", "@">>

\* 中心
KwCenter ==
    <<"u4E2D", "u5FC3">>

\* 中央
KwCentral ==
    <<"u4E2D", "u592E">>

\* 冰块
KwIceCube ==
    <<"u51B0", "u5757">>

\* 冰
KwIce ==
    <<"u51B0">>

\* @METHOD_ID:
MethodIdTag ==
    <<"@", "M", "E", "T", "H", "O", "D", "_", "I", "D", ":">>

\* method-
MethodIdPrefix ==
    <<"m", "e", "t", "h", "o", "d", "-">>

\* <!--JSON_DATA:
JsonDataOpen ==
    <<"<", "!", "-", "-", "J", "S", "O", "N", "_", "D", "A", "T", "A", ":">>

\* -->
JsonDataClose ==
    <<"-", "-", ">">>

\* \n---
FooterRule ==
    <<"\n", "-", "-", "-">>

\* 【咖啡豆】
BeanHeader ==
    <<"u3010", "u5496", "u5561", "u8C46", "u3011">>

\* 【冲煮记录】
NoteHeader ==
    <<"u3010", "u51B2", "u716E", "u8BB0", "u5F55", "u3011">>

\* 15g
DefaultCoffee ==
    <<"1", "5", "g">>

\* 225g
DefaultWater ==
    <<"2", "2", "5", "g">>

\* 1:15
DefaultRatio ==
    <<"1", ":", "1", "5">>

\* 中细
DefaultGrindSize ==
    <<"u4E2D", "u7EC6">>

\* 92°C
DefaultTemp ==
    <<"9", "2", "u00B0", "C">>

\* 优化方案
OptimizedSuffix ==
    <<"u4F18", "u5316", "u65B9", "u6848">>

\* the literals of the coffee-bean text, other than its header and marker
BeanLabels ==
    [Capacity |-> <<"u5BB9", "u91CF", ":">>,    \* 容量:
     RemainingPrefix |-> <<"u5269", "u4F59">>,    \* 剩余
     Roast |-> <<"u70D8", "u7119", "u5EA6", ":">>,    \* 烘焙度:
     Unknown |-> <<"u672A", "u77E5">>,    \* 未知
     LightRoast |-> <<"u6D45", "u5EA6", "u70D8", "u7119">>,    \* 浅度烘焙
     RoastDate |-> <<"u70D8", "u7119", "u65E5", "u671F", ":">>,    \* 烘焙日期:
     Origin |-> <<"u4EA7", "u5730", ":">>,    \* 产地:
     Process |-> <<"u5904", "u7406", "u6CD5", ":">>,    \* 处理法:
     Variety |-> <<"u54C1", "u79CD", ":">>,    \* 品种:
     Type |-> <<"u7C7B", "u578B", ":">>,    \* 类型:
     Price |-> <<"u4EF7", "u683C", ":">>,    \* 价格:
     Yuan |-> <<"u5143">>,    \* 元
     Flavor |-> <<"u98CE", "u5473", "u6807", "u7B7E", ":">>,    \* 风味标签:
     Notes |-> <<"u5907", "u6CE8", ":">>,    \* 备注:
     BlendHeader |-> <<"u62FC", "u914D", "u6210", "u5206", ":">>]    \* 拼配成分:

\* the literals of the brewing-note text, other than its header and marker
NoteLabels ==
    [Equipment |-> <<"u8BBE", "u5907", ":">>,    \* 设备:
     Method |-> <<"u65B9", "u6CD5", ":">>,    \* 方法:
     Bean |-> <<"u5496", "u5561", "u8C46", ":">>,    \* 咖啡豆:
     ParamsHeader |-> <<"u53C2", "u6570", "u8BBE", "u7F6E", ":">>,    \* 参数设置:
     TasteHeader |-> <<"u98CE", "u5473", "u8BC4", "u5206", ":">>,    \* 风味评分:
     Acidity |-> <<"u9178", "u5EA6", ":">>,    \* 酸度:
     Sweetness |-> <<"u751C", "u5EA6", ":">>,    \* 甜度:
     Bitterness |-> <<"u82E6", "u5EA6", ":">>,    \* 苦度:
     Body |-> <<"u9187", "u539A", "u5EA6", ":">>,    \* 醇厚度:
     Rating |-> <<"u7EFC", "u5408", "u8BC4", "u5206", ":">>,    \* 综合评分:
     NotesHeader |-> <<"u7B14", "u8BB0", ":">>,    \* 笔记:
     NoteIdPrefix |-> <<"n", "o", "t", "e", "-">>,    \* note-
     NoteFooter |-> <<"-", "-", "-", " ", "u590D", "u5236", "u5168",
                      "u90E8", "u5185", "u5BB9", "u53EF", "u5206",
                      "u4EAB", "u548C", "u5BFC", "u5165", " ", "-", "-",
                      "-">>]    \* --- 复制全部内容可分享和导入 ---

\* the keys of the JSON document and the values of its enumerated fields
K ==
    [method |-> <<"m", "e", "t", "h", "o", "d">>,
     equipment |-> <<"e", "q", "u", "i", "p", "m", "e", "n", "t">>,
     params |-> <<"p", "a", "r", "a", "m", "s">>,
     coffee |-> <<"c", "o", "f", "f", "e", "e">>,
     water |-> <<"w", "a", "t", "e", "r">>,
     ratio |-> <<"r", "a", "t", "i", "o">>,
     grindSize |-> <<"g", "r", "i", "n", "d", "S", "i", "z", "e">>,
     temp |-> <<"t", "e", "m", "p">>,
     videoUrl |-> <<"v", "i", "d", "e", "o", "U", "r", "l">>,
     stages |-> <<"s", "t", "a", "g", "e", "s">>,
     time |-> <<"t", "i", "m", "e">>,
     pourTime |-> <<"p", "o", "u", "r", "T", "i", "m", "e">>,
     label |-> <<"l", "a", "b", "e", "l">>,
     detail |-> <<"d", "e", "t", "a", "i", "l">>,
     pourType |-> <<"p", "o", "u", "r", "T", "y", "p", "e">>,
     valveStatus |-> <<"v", "a", "l", "v", "e", "S", "t", "a", "t", "u",
                       "s">>,
     id |-> <<"i", "d">>,
     center |-> <<"c", "e", "n", "t", "e", "r">>,
     circle |-> <<"c", "i", "r", "c", "l", "e">>,
     ice |-> <<"i", "c", "e">>,
     other |-> <<"o", "t", "h", "e", "r">>,
     spiral |-> <<"s", "p", "i", "r", "a", "l">>,
     open |-> <<"o", "p", "e", "n">>,
     closed |-> <<"c", "l", "o", "s", "e", "d">>,
     currentTaste |->
        <<"c", "u", "r", "r", "e", "n", "t", "T", "a", "s", "t", "e">>,
     idealTaste |-> <<"i", "d", "e", "a", "l", "T", "a", "s", "t", "e">>,
     notes |-> <<"n", "o", "t", "e", "s">>,
     optimizationGoal |->
        <<"o", "p", "t", "i", "m", "i", "z", "a", "t", "i", "o", "n", "G", "o",
          "a", "l">>]
----------------------------------------------------------------------------
(* Strings: the String.prototype methods and the regular-expression pieces  *)
(* the parsers use.                                                         *)

\* the characters \s matches and trim() removes
WhiteSpace == {" ", "\n", "\t"}

\* the characters . does not match
LineTerminators == {"\n"}

DigitChars == <<"0", "1", "2", "3", "4", "5", "6", "7", "8", "9">>

\* \d
IsDigit(c) == c \in {"0", "1", "2", "3", "4", "5", "6", "7", "8", "9"}

DigitValue(c) == CHOOSE d \in 0..9 : DigitChars[d + 1] = c

\* `${n}` of a non-negative integer
RECURSIVE NumberToString(_)
NumberToString(n) ==
    IF n < 10 THEN <<DigitChars[n + 1]>>
    ELSE Append(NumberToString(n \div 10), DigitChars[(n % 10) + 1])

\* parseInt of a run of digits
RECURSIVE parseInt(_)
parseInt(s) ==
    IF s = <<>> THEN 0
    ELSE 10 * parseInt(SubSeq(s, 1, Len(s) - 1)) + DigitValue(s[Len(s)])

\* does p occur in t at index i
OccursAt(t, p, i) ==
    /\ i >= 1
    /\ i + Len(p) - 1 <= Len(t)
    /\ SubSeq(t, i, i + Len(p) - 1) = p

\* the least element of a non-empty set of indices
Least(S) == CHOOSE k \in S : \A j \in S : k <= j

\* t.indexOf(p, i), 1-based; 0 when p does not occur at or after i
IndexFrom(t, p, i) ==
    LET at == {k \in i..(Len(t) - Len(p) + 1) : OccursAt(t, p, k)}
    IN  IF at = {} THEN 0 ELSE Least(at)

\* t.includes(p)
Includes(t, p) == IndexFrom(t, p, 1) # 0

\* the first index at or after i whose character is not white space
RECURSIVE SkipSpace(_, _)
SkipSpace(t, i) ==
    IF i <= Len(t) /\ t[i] \in WhiteSpace THEN SkipSpace(t, i + 1) ELSE i

\* the last index at or before i whose character is not white space
RECURSIVE SkipSpaceBack(_, _)
SkipSpaceBack(t, i) ==
    IF i >= 1 /\ t[i] \in WhiteSpace THEN SkipSpaceBack(t, i - 1) ELSE i

\* s.trim()
Trim(s) == SubSeq(s, SkipSpace(s, 1), SkipSpaceBack(s, Len(s)))

\* s.startsWith(p)
StartsWith(s, p) == OccursAt(s, p, 1)

\* the index of the first line terminator at or after i, Len(t) + 1 if none
LineEnd(t, i) ==
    LET at == {k \in i..Len(t) : t[k] \in LineTerminators}
    IN  IF at = {} THEN Len(t) + 1 ELSE Least(at)

\* the end of the run of digits that starts at i (i itself when t[i] is
\* no digit)
RECURSIVE DigitsEnd(_, _)
DigitsEnd(t, i) ==
    IF i <= Len(t) /\ IsDigit(t[i]) THEN DigitsEnd(t, i + 1) ELSE i

NoMatch == [found |-> FALSE, g1 |-> <<>>]

\* text.match(/<label>(.*?)(?:\n|$)/): the group runs to the end of the line
MatchLine(t, label) ==
    LET p == IndexFrom(t, label, 1)
        s == p + Len(label)
    IN  IF p = 0 THEN NoMatch
        ELSE [found |-> TRUE, g1 |-> SubSeq(t, s, LineEnd(t, s) - 1)]

\* text.match(/<label>\s*(.*?)(?:\n|$)/): \s* is greedy and also takes line
\* breaks, so the group is the rest of the first line that holds anything
MatchValue(t, label) ==
    LET p == IndexFrom(t, label, 1)
        s == SkipSpace(t, p + Len(label))
    IN  IF p = 0 THEN NoMatch
        ELSE [found |-> TRUE, g1 |-> SubSeq(t, s, LineEnd(t, s) - 1)]

\* t.split(sep)[0]
SplitFirst(t, sep) ==
    LET p == IndexFrom(t, sep, 1)
    IN  IF p = 0 THEN t ELSE SubSeq(t, 1, p - 1)

\* t.split(sep)[1], for a t that includes sep
SplitSecond(t, sep) ==
    LET s == IndexFrom(t, sep, 1) + Len(sep)
        q == IndexFrom(t, sep, s)
    IN  SubSeq(t, s, IF q = 0 THEN Len(t) ELSE q - 1)

\* t.split("\n")
RECURSIVE SplitLines(_)
SplitLines(t) ==
    LET p == IndexFrom(t, <<"\n">>, 1)
    IN  IF p = 0 THEN <<t>>
        ELSE <<SubSeq(t, 1, p - 1)>> \o SplitLines(SubSeq(t, p + 1, Len(t)))

\* lines.filter((line) => line.trim() !== "")
NonBlankLines(lines) == SelectSeq(lines, LAMBDA line : Trim(line) # <<>>)

----------------------------------------------------------------------------
(* methodToReadableText: a Method as readable text                          *)

\* x || fallback, for a string x
OrElse(x, fallback) == IF x # <<>> THEN x ELSE fallback

getPourTypeText(pourType) ==
    CASE pourType = K.center -> CenterText
      [] pourType = K.circle -> CircleText
      [] pourType = K.ice -> IceText
      [] pourType = K.other -> OtherText
      [] OTHER -> CircleText

\* one step of the numbered step list, index counted from 0
StageText(stage, index) ==
    LET timeText == NumberToString(stage.time \div 60) \o <<"u5206">>
                    \o NumberToString(stage.time % 60) \o <<"u79D2">>
        pourTimeText ==
            IF stage.pourTime # 0
            THEN PourTimePrefix \o NumberToString(stage.pourTime)
                 \o PourTimeSuffix
            ELSE <<>>
        pourTypeText ==
            IF stage.pourType # <<>>
            THEN <<" ", "[">> \o getPourTypeText(stage.pourType) \o <<"]">>
            ELSE <<>>
    IN  NumberToString(index + 1) \o <<".", " ", "[">> \o timeText \o <<"]">>
        \o pourTimeText \o pourTypeText \o <<" ">> \o stage.label
        \o <<" ", "-", " ">> \o stage.water \o <<"\n">>
        \o (IF stage.detail # <<>>
            THEN <<" ", " ", " ">> \o stage.detail \o <<"\n">>
            ELSE <<>>)
        \o <<"\n">>

RECURSIVE StagesText(_, _)
StagesText(stages, index) ==
    IF index >= Len(stages) THEN <<>>
    ELSE StageText(stages[index + 1], index) \o StagesText(stages, index + 1)

methodToReadableText(m) ==
    MethodHeader \o m.name \o <<"\n", "\n">>
    \o LabelCoffee \o <<" ">> \o OrElse(m.params.coffee, Unset) \o <<"\n">>
    \o LabelWater \o <<" ">> \o OrElse(m.params.water, Unset) \o <<"\n">>
    \o LabelRatio \o <<" ">> \o OrElse(m.params.ratio, Unset) \o <<"\n">>
    \o LabelGrindSize \o <<" ">> \o OrElse(m.params.grindSize, Unset)
    \o <<"\n">>
    \o LabelTemp \o <<" ">> \o OrElse(m.params.temp, Unset) \o <<"\n">>
    \o (IF Len(m.params.stages) > 0
        THEN <<"\n">> \o StagesHeader \o <<"\n", "\n">>
             \o StagesText(m.params.stages, 0)
        ELSE <<>>)
    \o MethodFooter
    \o <<"\n", "\n">> \o MarkerMethod

----------------------------------------------------------------------------
(* parseMethodText: readable text back to a Method                          *)

\* ParamValue without the comparison with the placeholder
ParamValue_Literal(t, label) ==
    LET m == MatchValue(t, label)
    IN  IF m.found /\ m.g1 # <<>> THEN Trim(m.g1) ELSE <<>>

\* a scalar param line: the value unless it is absent, empty or the
\* placeholder; the comparison is made before the trim
ParamValue(t, label) ==
    LET m == MatchValue(t, label)
    IN  IF m.found /\ m.g1 # <<>> /\ m.g1 # Unset THEN Trim(m.g1) ELSE <<>>

\* [a-zA-Z0-9-]
IsIdChar(c) ==
    \/ IsDigit(c)
    \/ c = "-"
    \/ c \in {"a", "b", "c", "d", "e", "f", "g", "h", "i", "j", "k", "l", "m",
              "n", "o", "p", "q", "r", "s", "t", "u", "v", "w", "x", "y", "z"}
    \/ c \in {"A", "B", "C", "D", "E", "F", "G", "H", "I", "J", "K", "L", "M",
              "N", "O", "P", "Q", "R", "S", "T", "U", "V", "W", "X", "Y", "Z"}

RECURSIVE IdCharsEnd(_, _)
IdCharsEnd(t, i) ==
    IF i <= Len(t) /\ IsIdChar(t[i]) THEN IdCharsEnd(t, i + 1) ELSE i

\* text.match(/@METHOD_ID:(method-[a-zA-Z0-9-]+)@/), tried at each
\* occurrence of the tag from index i on
RECURSIVE MatchMethodId(_, _)
MatchMethodId(t, i) ==
    LET p == IndexFrom(t, MethodIdTag \o MethodIdPrefix, i)
        s == p + Len(MethodIdTag)
        b == s + Len(MethodIdPrefix)
        e == IdCharsEnd(t, b)
    IN  IF p = 0 THEN NoMatch
        ELSE IF e > b /\ e <= Len(t) /\ t[e] = "@"
        THEN [found |-> TRUE, g1 |-> SubSeq(t, s, e - 1)]
        ELSE MatchMethodId(t, p + 1)

\* line.match(/^\d+\.\s*\[.*?\]/)
IsStageLine(line) ==
    LET d == DigitsEnd(line, 1)
        b == SkipSpace(line, d + 1)
    IN  /\ d > 1
        /\ d <= Len(line) /\ line[d] = "."
        /\ b <= Len(line) /\ line[b] = "["
        /\ \E k \in (b + 1)..Len(line) : line[k] = "]"

NoStageMatch ==
    [found |-> FALSE, g1 |-> <<>>, g2 |-> <<>>, g3 |-> <<>>, g4 |-> <<>>]

\* the first index j >= i from which \s*- matches: the start of the white
\* space that runs up to the first "-" at or after i; 0 when there is no "-"
DashStart(line, i) ==
    LET at == {k \in i..Len(line) : line[k] = "-"}
        d == Least(at)
    IN  IF at = {} THEN 0
        ELSE Least({j \in i..d : SkipSpace(line, j) = d})

\* /\d+\.\s*\[(\d+)分(\d+)秒\]\s*(.*?)\s*-\s*(.*?)(?:\n|$)/ tried with its
\* start at p
StageMatchAt(line, p) ==
    LET d == DigitsEnd(line, p)            \* \d+
        b == SkipSpace(line, d + 1)        \* \. \s*
        m1 == DigitsEnd(line, b + 1)       \* \[ (\d+)
        s1 == DigitsEnd(line, m1 + 1)      \* 分 (\d+)
        l == SkipSpace(line, s1 + 2)       \* 秒 \] \s*
        j == DashStart(line, l)            \* (.*?) up to \s*-
        w == SkipSpace(line, SkipSpace(line, j) + 1)   \* \s* - \s*
    IN  IF /\ d > p
           /\ d <= Len(line) /\ line[d] = "."
           /\ b <= Len(line) /\ line[b] = "["
           /\ m1 > b + 1
           /\ m1 <= Len(line) /\ line[m1] = "u5206"
           /\ s1 > m1 + 1
           /\ s1 + 1 <= Len(line)
           /\ line[s1] = "u79D2" /\ line[s1 + 1] = "]"
           /\ j # 0
           /\ \A k \in l..(j - 1) : line[k] \notin LineTerminators
        THEN [found |-> TRUE,
              g1 |-> SubSeq(line, b + 1, m1 - 1),
              g2 |-> SubSeq(line, m1 + 1, s1 - 1),
              g3 |-> SubSeq(line, l, j - 1),
              g4 |-> SubSeq(line, w, LineEnd(line, w) - 1)]
        ELSE NoStageMatch

\* the match at the leftmost start that gives one; a match starts at a digit
StageMatchFrom(line, p) ==
    LET at == {k \in p..Len(line) :
                 IsDigit(line[k]) /\ StageMatchAt(line, k).found}
    IN  IF at = {} THEN NoStageMatch ELSE StageMatchAt(line, Least(at))

StageMatch(line) == StageMatchFrom(line, 1)

\* is the line after the step header taken as the step's detail
IsDetailLine(next) == StartsWith(Trim(next), <<" ">>)

\* pourType from the detail text ("circle" when it says nothing)
PourTypeOfDetail(detail) ==
    IF Includes(detail, KwCenter) \/ Includes(detail, KwCentral) THEN K.center
    ELSE IF Includes(detail, KwIceCube) \/ Includes(detail, KwIce) THEN K.ice
    ELSE K.circle

\* pourType from the label, asked only when the detail left it "circle"
PourTypeOfLabel(label) ==
    IF Includes(label, KwCenter) THEN K.center
    ELSE IF Includes(label, KwIceCube) \/ Includes(label, KwIce) THEN K.ice
    ELSE K.circle

\* Math.min(20, Math.ceil(time * 0.25))
DefaultPourTime(time) ==
    LET q == (time + 3) \div 4 IN IF q < 20 THEN q ELSE 20

\* the stage a matched step header gives, with the detail line when taken
ParsedStage(m, hasDetail, next) ==
    LET time == parseInt(m.g1) * 60 + parseInt(m.g2)
        label == Trim(m.g3)
        detail == IF hasDetail THEN Trim(next) ELSE <<>>
        fromDetail == IF hasDetail THEN PourTypeOfDetail(detail) ELSE K.circle
    IN  [time |-> time,
         pourTime |-> DefaultPourTime(time),
         label |-> label,
         water |-> Trim(m.g4),
         detail |-> detail,
         pourType |-> IF fromDetail = K.circle THEN PourTypeOfLabel(label)
                      ELSE fromDetail]

\* the for loop over stageLines, from index i (counted from 1)
RECURSIVE ParseStageLines(_, _)
ParseStageLines(stageLines, i) ==
    IF i > Len(stageLines) THEN <<>>
    ELSE LET line == stageLines[i]
             m == StageMatch(line)
             hasDetail == /\ i + 1 <= Len(stageLines)
                          /\ IsDetailLine(stageLines[i + 1])
             next == IF i + 1 <= Len(stageLines) THEN stageLines[i + 1]
                     ELSE <<>>
         IN  IF IsStageLine(line) /\ m.found
             THEN <<ParsedStage(m, hasDetail, next)>>
                  \o ParseStageLines(stageLines,
                                     IF hasDetail THEN i + 2 ELSE i + 1)
             ELSE ParseStageLines(stageLines, i + 1)

\* the stages of the text, [] when it has no step list
ParsedStages(t) ==
    IF Includes(t, StagesHeader)
    THEN ParseStageLines(
             NonBlankLines(SplitLines(
                 SplitFirst(SplitSecond(t, StagesHeader), FooterRule))), 1)
    ELSE <<>>

\* `method-${Date.now()}`
FreshMethodId(clock) == MethodIdPrefix \o NumberToString(clock)

\* parseMethodText without the search for an @METHOD_ID:...@ tag
parseMethodText_AlwaysFresh(t, clock) ==
    LET nameMatch == MatchLine(t, MethodHeader)
    IN  [id |-> FreshMethodId(clock),
         name |-> IF nameMatch.found THEN Trim(nameMatch.g1) ELSE <<>>,
         params |-> [coffee |-> ParamValue(t, LabelCoffee),
                     water |-> ParamValue(t, LabelWater),
                     ratio |-> ParamValue(t, LabelRatio),
                     grindSize |-> ParamValue(t, LabelGrindSize),
                     temp |-> ParamValue(t, LabelTemp),
                     videoUrl |-> <<>>,
                     stages |-> ParsedStages(t)]]

parseMethodText(t, clock) ==
    LET nameMatch == MatchLine(t, MethodHeader)
        idMatch == MatchMethodId(t, 1)
    IN  [id |-> IF idMatch.found THEN idMatch.g1 ELSE FreshMethodId(clock),
         name |-> IF nameMatch.found THEN Trim(nameMatch.g1) ELSE <<>>,
         params |-> [coffee |-> ParamValue(t, LabelCoffee),
                     water |-> ParamValue(t, LabelWater),
                     ratio |-> ParamValue(t, LabelRatio),
                     grindSize |-> ParamValue(t, LabelGrindSize),
                     temp |-> ParamValue(t, LabelTemp),
                     videoUrl |-> <<>>,
                     stages |-> ParsedStages(t)]]

----------------------------------------------------------------------------
(* JavaScript values, and JSON.parse                                        *)
(*                                                                          *)
(* A value carries its type: t is "undefined", "null", "boolean", "number", *)
(* "string", "array" or "object", and v the value.  An object is the        *)
(* sequence of its members in insertion order.  The numbers are the         *)
(* integers.  A thrown exception is written as the value Thrown.            *)

JUndefined == [t |-> "undefined", v |-> 0]
JNull == [t |-> "null", v |-> 0]
JBool(b) == [t |-> "boolean", v |-> b]
JNum(n) == [t |-> "number", v |-> n]
JStr(s) == [t |-> "string", v |-> s]
JArr(xs) == [t |-> "array", v |-> xs]
JObj(members) == [t |-> "object", v |-> members]

Thrown == [t |-> "throw", v |-> 0]

\* is the value truthy
Truthy(x) ==
    CASE x.t \in {"undefined", "null"} -> FALSE
      [] x.t = "boolean" -> x.v
      [] x.t = "number" -> x.v # 0
      [] x.t = "string" -> x.v # <<>>
      [] OTHER -> TRUE

\* x || y
Or(x, y) == IF Truthy(x) THEN x ELSE y

\* obj[key] = val, for the members of an object
RECURSIVE PutMember(_, _, _)
PutMember(members, key, val) ==
    IF members = <<>> THEN <<[k |-> key, v |-> val]>>
    ELSE IF Head(members).k = key
    THEN <<[k |-> key, v |-> val]>> \o Tail(members)
    ELSE <<Head(members)>> \o PutMember(Tail(members), key, val)

\* x.key for a key that only own properties of a parsed object can hold;
\* reading a property of null or undefined throws a TypeError
Get(x, key) ==
    IF x.t \in {"undefined", "null", "throw"} THEN Thrown
    ELSE IF x.t = "object" /\ \E i \in 1..Len(x.v) : x.v[i].k = key
    THEN x.v[CHOOSE i \in 1..Len(x.v) : x.v[i].k = key].v
    ELSE JUndefined

\* x?.key
OptGet(x, key) ==
    IF x.t \in {"undefined", "null"} THEN JUndefined ELSE Get(x, key)

\* `${x}`
RECURSIVE ToStr(_)
ToStr(x) ==
    CASE x.t = "string" -> x.v
      [] x.t = "number" ->
            IF x.v < 0 THEN <<"-">> \o NumberToString(0 - x.v)
            ELSE NumberToString(x.v)
      [] x.t = "boolean" ->
            IF x.v THEN <<"t", "r", "u", "e">>
            ELSE <<"f", "a", "l", "s", "e">>
      [] x.t = "null" -> <<"n", "u", "l", "l">>
      [] x.t = "array" ->
            IF x.v = <<>> THEN <<>>
            ELSE LET first == IF Head(x.v).t \in {"null", "undefined"}
                              THEN <<>> ELSE ToStr(Head(x.v))
                 IN  IF Len(x.v) = 1 THEN first
                     ELSE first \o <<",">> \o ToStr(JArr(Tail(x.v)))
      [] x.t = "object" ->
            <<"[", "o", "b", "j", "e", "c", "t", " ",
              "O", "b", "j", "e", "c", "t", "]">>
      [] OTHER -> <<"u", "n", "d", "e", "f", "i", "n", "e", "d">>

ParseFail == [ok |-> FALSE, val |-> JUndefined, pos |-> 0]
Parsed(val, pos) == [ok |-> TRUE, val |-> val, pos |-> pos]

\* the index of the quote that closes a string whose characters start at
\* i; 0 when a control character or the end of the text comes first
RECURSIVE StringEnd(_, _)
StringEnd(t, i) ==
    IF i > Len(t) \/ t[i] \in {"\n", "\t", "\\"} THEN 0
    ELSE IF t[i] = "\"" THEN i
    ELSE StringEnd(t, i + 1)

\* a string, t[i] being its opening quote
ParseString(t, i) ==
    LET e == StringEnd(t, i + 1)
    IN  IF e = 0 THEN ParseFail
        ELSE Parsed(JStr(SubSeq(t, i + 1, e - 1)), e + 1)

\* an integer: -? (0 | [1-9][0-9]*)
ParseNumber(t, i) ==
    LET s == IF t[i] = "-" THEN i + 1 ELSE i
        e == DigitsEnd(t, s)
        n == parseInt(SubSeq(t, s, e - 1))
    IN  IF e > s /\ (t[s] # "0" \/ e = s + 1)
        THEN Parsed(JNum(IF s > i THEN 0 - n ELSE n), e)
        ELSE ParseFail

RECURSIVE ParseValue(_, _)
RECURSIVE ParseElements(_, _, _)
RECURSIVE ParseMembers(_, _, _)

\* a value, after any white space at i
ParseValue(t, i0) ==
    LET i == SkipSpace(t, i0)
    IN  IF i > Len(t) THEN ParseFail
        ELSE CASE t[i] = "{" ->
                    LET j == SkipSpace(t, i + 1)
                    IN  IF j <= Len(t) /\ t[j] = "}"
                        THEN Parsed(JObj(<<>>), j + 1)
                        ELSE ParseMembers(t, j, <<>>)
               [] t[i] = "[" ->
                    LET j == SkipSpace(t, i + 1)
                    IN  IF j <= Len(t) /\ t[j] = "]"
                        THEN Parsed(JArr(<<>>), j + 1)
                        ELSE ParseElements(t, j, <<>>)
               [] t[i] = "\"" -> ParseString(t, i)
               [] IsDigit(t[i]) \/ t[i] = "-" -> ParseNumber(t, i)
               [] OccursAt(t, <<"n", "u", "l", "l">>, i) ->
                    Parsed(JNull, i + 4)
               [] OccursAt(t, <<"t", "r", "u", "e">>, i) ->
                    Parsed(JBool(TRUE), i + 4)
               [] OccursAt(t, <<"f", "a", "l", "s", "e">>, i) ->
                    Parsed(JBool(FALSE), i + 5)
               [] OTHER -> ParseFail

\* the elements of an array from i on, acc being those read so far
ParseElements(t, i, acc) ==
    LET r == ParseValue(t, i)
        j == SkipSpace(t, r.pos)
    IN  IF ~r.ok \/ j > Len(t) THEN ParseFail
        ELSE IF t[j] = "," THEN ParseElements(t, j + 1, Append(acc, r.val))
        ELSE IF t[j] = "]" THEN Parsed(JArr(Append(acc, r.val)), j + 1)
        ELSE ParseFail

\* the members of an object from i on, acc being those read so far
ParseMembers(t, i, acc) ==
    LET key == IF i <= Len(t) /\ t[i] = "\"" THEN ParseString(t, i)
               ELSE ParseFail
        c == SkipSpace(t, key.pos)
        r == IF key.ok /\ c <= Len(t) /\ t[c] = ":"
             THEN ParseValue(t, c + 1) ELSE ParseFail
        j == SkipSpace(t, r.pos)
        members == PutMember(acc, key.val.v, r.val)
    IN  IF ~r.ok \/ j > Len(t) THEN ParseFail
        ELSE IF t[j] = ","
        THEN ParseMembers(t, SkipSpace(t, j + 1), members)
        ELSE IF t[j] = "}" THEN Parsed(JObj(members), j + 1)
        ELSE ParseFail

\* JSON.parse(t): the value, or Thrown for a SyntaxError
JSONparse(t) ==
    LET r == ParseValue(t, 1)
    IN  IF r.ok /\ SkipSpace(t, r.pos) > Len(t) THEN r.val ELSE Thrown

----------------------------------------------------------------------------
(* parseMethodFromJson: a JSON document to a Method                         *)

\* try { body } catch { return handler }
Catch(body, handler) == IF body.t = "throw" THEN handler ELSE body

\* `${Date.now()}-${Math.random().toString(36).substr(2, 9)}`, suffix being
\* the characters the random number gives
FreshId(clock, suffix) == NumberToString(clock) \o <<"-">> \o suffix

PourTypes == {JStr(K.center), JStr(K.circle), JStr(K.ice), JStr(K.other)}

ValveStatuses == {JStr(K.open), JStr(K.closed)}

\* NormalPourType without the membership test: the input's pourType when it
\* is truthy
NormalPourType_Unchecked(stage) ==
    Or(Get(stage, K.pourType), JStr(K.circle))

\* the pourType of a stage entry: kept when valid, else "circle"
NormalPourType(stage) ==
    LET pourType == Or(Get(stage, K.pourType), JStr(K.circle))
    IN  IF pourType \in PourTypes THEN pourType ELSE JStr(K.circle)

\* the valveStatus of a stage entry: kept when valid, else ""
NormalValveStatus(stage) ==
    LET valveStatus == Or(Get(stage, K.valveStatus), JStr(<<>>))
    IN  IF Truthy(valveStatus) /\ valveStatus \notin ValveStatuses
        THEN JStr(<<>>) ELSE valveStatus

\* the callback of stages.map; reading a property of a null entry throws
StageOfJson(stage) ==
    IF stage.t \in {"null", "undefined"} THEN Thrown
    ELSE [t |-> "stage",
          v |-> [time |-> Or(Get(stage, K.time), JNum(0)),
                 pourTime |-> Or(Get(stage, K.pourTime), JNum(0)),
                 label |-> Or(Get(stage, K.label), JStr(<<>>)),
                 water |-> Or(Get(stage, K.water), JStr(<<>>)),
                 detail |-> Or(Get(stage, K.detail), JStr(<<>>)),
                 pourType |-> NormalPourType(stage),
                 valveStatus |-> NormalValveStatus(stage)]]

\* method.params.stages after the "stages" block: [] unless params.stages
\* is an array
StagesOfJson(params) ==
    LET stages == OptGet(params, K.stages)
    IN  IF Truthy(stages) /\ stages.t = "array"
        THEN [i \in 1..Len(stages.v) |-> StageOfJson(stages.v[i])]
        ELSE <<>>

\* ParamOrDefault with ?? in the place of ||: the fallback only for an
\* absent or null param
ParamOrDefault_Nullish(params, key, fallback) ==
    IF OptGet(params, key).t \in {"undefined", "null"} THEN JStr(fallback)
    ELSE OptGet(params, key)

\* x || fallback for a scalar param of params
ParamOrDefault(params, key, fallback) ==
    Or(OptGet(params, key), JStr(fallback))

\* the body of the try block
MethodOfJson(jsonString, clock, suffix) ==
    LET parsedData == JSONparse(jsonString)
        name == Get(parsedData, K.method)
        equipment == Get(parsedData, K.equipment)
        params == Get(parsedData, K.params)
        stages == StagesOfJson(params)
    IN  IF parsedData.t = "throw" THEN Thrown
        ELSE IF name.t = "throw" THEN Thrown
        ELSE IF ~Truthy(name) /\ ~Truthy(equipment) THEN Thrown
        ELSE IF \E i \in 1..Len(stages) : stages[i].t = "throw" THEN Thrown
        ELSE IF Len(stages) = 0 THEN Thrown
        ELSE [t |-> "method",
              v |-> [id |-> FreshId(clock, suffix),
                     name |-> Or(name, JStr(ToStr(equipment)
                                            \o OptimizedSuffix)),
                     params |->
                       [coffee |-> ParamOrDefault(params, K.coffee,
                                                  DefaultCoffee),
                        water |-> ParamOrDefault(params, K.water,
                                                 DefaultWater),
                        ratio |-> ParamOrDefault(params, K.ratio,
                                                 DefaultRatio),
                        grindSize |-> ParamOrDefault(params, K.grindSize,
                                                     DefaultGrindSize),
                        temp |-> ParamOrDefault(params, K.temp,
                                                DefaultTemp),
                        videoUrl |-> ParamOrDefault(params, K.videoUrl,
                                                    <<>>),
                        stages |-> [i \in 1..Len(stages) |->
                                      stages[i].v]]]]

\* parseMethodFromJson without its catch block
parseMethodFromJson_Uncaught(jsonString, clock, suffix) ==
    MethodOfJson(jsonString, clock, suffix)

\* try { ... } catch (_err) { return null; }
parseMethodFromJson(jsonString, clock, suffix) ==
    Catch(MethodOfJson(jsonString, clock, suffix), JNull)

----------------------------------------------------------------------------
(* parseCoffeeBeanText and parseBrewingNoteText                             *)
(*                                                                          *)
(* A property the parser assigns only from a non-empty match is <<>> when   *)
(* it was not assigned.                                                     *)

\* text.match(/<prefix>\s*(\d+)<suffix>/), tried at each occurrence of the
\* prefix from index i on; without \s* when spaced is FALSE
RECURSIVE MatchNumber(_, _, _, _, _)
MatchNumber(t, prefix, spaced, suffix, i) ==
    LET p == IndexFrom(t, prefix, i)
        s == IF spaced THEN SkipSpace(t, p + Len(prefix))
             ELSE p + Len(prefix)
        e == DigitsEnd(t, s)
    IN  IF p = 0 THEN NoMatch
        ELSE IF e > s /\ OccursAt(t, suffix, e)
        THEN [found |-> TRUE, g1 |-> SubSeq(t, s, e - 1)]
        ELSE MatchNumber(t, prefix, spaced, suffix, p + 1)

\* a labelled line's value, trimmed; <<>> when the line is absent or empty
LineValue(t, label) ==
    LET m == MatchValue(t, label)
    IN  IF m.found /\ m.g1 # <<>> THEN Trim(m.g1) ELSE <<>>

\* a labelled line's value unless it is the placeholder
LineValueUnless(t, label, placeholder) ==
    LET m == MatchValue(t, label)
    IN  IF m.found /\ m.g1 # <<>> /\ m.g1 # placeholder THEN Trim(m.g1)
        ELSE <<>>

\* s.split(",").map((f) => f.trim())
RECURSIVE SplitCommaTrim(_)
SplitCommaTrim(s) ==
    LET p == IndexFrom(s, <<",">>, 1)
    IN  IF p = 0 THEN <<Trim(s)>>
        ELSE <<Trim(SubSeq(s, 1, p - 1))>>
             \o SplitCommaTrim(SubSeq(s, p + 1, Len(s)))

\* does \s*\((\d+)%\) match at j
BlendTailAt(t, j) ==
    LET e == SkipSpace(t, j)
        d == DigitsEnd(t, e + 1)
    IN  /\ e <= Len(t) /\ t[e] = "("
        /\ d > e + 1
        /\ d + 1 <= Len(t) /\ t[d] = "%" /\ t[d + 1] = ")"

\* the first j >= i on the line of i at which the tail matches; 0 if none
BlendTailStart(t, i) ==
    LET at == {j \in i..LineEnd(t, i) : BlendTailAt(t, j)}
    IN  IF at = {} THEN 0 ELSE Least(at)

NoBlendMatch == [found |-> FALSE, g1 |-> <<>>, g2 |-> <<>>, end |-> 0]

\* /\d+\.\s*(.*?)\s*\((\d+)%\)/ tried with its start at p
BlendMatchAt(t, p) ==
    LET d == DigitsEnd(t, p)
        s == SkipSpace(t, d + 1)
        j == BlendTailStart(t, s)
        e == SkipSpace(t, j)
        n == DigitsEnd(t, e + 1)
    IN  IF d > p /\ d <= Len(t) /\ t[d] = "." /\ j # 0
        THEN [found |-> TRUE, g1 |-> SubSeq(t, s, j - 1),
              g2 |-> SubSeq(t, e + 1, n - 1), end |-> n + 2]
        ELSE NoBlendMatch

\* section.match(/.../g) and the forEach over it: the components of the
\* successive matches from p on.  Matching a matched piece again gives the
\* same groups.
RECURSIVE BlendComponents(_, _)
BlendComponents(t, p) ==
    LET at == {k \in p..Len(t) : IsDigit(t[k]) /\ BlendMatchAt(t, k).found}
        m == BlendMatchAt(t, Least(at))
    IN  IF at = {} THEN <<>>
        ELSE (IF m.g1 # <<>> /\ m.g2 # <<>>
              THEN <<[name |-> Trim(m.g1), percentage |-> parseInt(m.g2)]>>
              ELSE <<>>)
             \o BlendComponents(t, m.end)

parseCoffeeBeanText(t) ==
    LET nameMatch == MatchLine(t, BeanHeader)
        capacityMatch == MatchNumber(t, BeanLabels.Capacity, TRUE, <<"g">>, 1)
        capacity == IF capacityMatch.found THEN capacityMatch.g1 ELSE <<>>
        remainingMatch ==
            MatchNumber(t, BeanLabels.RemainingPrefix, FALSE, <<"g">>, 1)
        roast == LineValueUnless(t, BeanLabels.Roast, BeanLabels.Unknown)
        priceMatch == MatchNumber(t, BeanLabels.Price, TRUE, BeanLabels.Yuan, 1)
        flavorMatch == MatchValue(t, BeanLabels.Flavor)
        hasBlend == Includes(t, BeanLabels.BlendHeader)
    IN  [name |-> IF nameMatch.found THEN Trim(nameMatch.g1) ELSE <<>>,
         capacity |-> capacity,
         remaining |-> IF remainingMatch.found THEN remainingMatch.g1
                       ELSE capacity,
         roastLevel |-> IF roast # <<>> THEN roast ELSE BeanLabels.LightRoast,
         roastDate |-> LineValue(t, BeanLabels.RoastDate),
         origin |-> LineValue(t, BeanLabels.Origin),
         process |-> LineValue(t, BeanLabels.Process),
         variety |-> LineValue(t, BeanLabels.Variety),
         type |-> LineValue(t, BeanLabels.Type),
         price |-> IF priceMatch.found THEN priceMatch.g1 ELSE <<>>,
         flavor |-> IF flavorMatch.found /\ flavorMatch.g1 # <<>>
                    THEN SplitCommaTrim(flavorMatch.g1) ELSE <<>>,
         notes |-> LineValue(t, BeanLabels.Notes),
         hasBlendComponents |-> hasBlend,
         blendComponents |->
             IF hasBlend
             THEN BlendComponents(
                      SplitFirst(SplitSecond(t, BeanLabels.BlendHeader),
                                 FooterRule), 1)
             ELSE <<>>]

\* Score of a text in which the line is never found
Score_Absent(t, label) == 0

\* a taste score or the rating: parseInt of the digits before /5, else 0
Score(t, label) ==
    LET m == MatchNumber(t, label, TRUE, <<"/", "5">>, 1)
    IN  IF m.found THEN parseInt(m.g1) ELSE 0

parseBrewingNoteText(t, clock) ==
    LET hasParams == Includes(t, NoteLabels.ParamsHeader)
        hasTaste == Includes(t, NoteLabels.TasteHeader)
        param(label) == IF hasParams THEN LineValueUnless(t, label, Unset)
                        ELSE <<>>
        taste(label) == IF hasTaste THEN Score(t, label) ELSE 0
    IN  [equipment |-> LineValueUnless(t, NoteLabels.Equipment, Unset),
         method |-> LineValueUnless(t, NoteLabels.Method, Unset),
         coffeeBeanInfo |->
             [name |-> LineValueUnless(t, NoteLabels.Bean, Unset),
              roastLevel |-> LineValueUnless(t, BeanLabels.Roast, Unset)],
         params |-> [coffee |-> param(LabelCoffee),
                     water |-> param(LabelWater),
                     ratio |-> param(LabelRatio),
                     grindSize |-> param(LabelGrindSize),
                     temp |-> param(LabelTemp)],
         taste |-> [acidity |-> taste(NoteLabels.Acidity),
                    sweetness |-> taste(NoteLabels.Sweetness),
                    bitterness |-> taste(NoteLabels.Bitterness),
                    body |-> taste(NoteLabels.Body)],
         rating |-> Score(t, NoteLabels.Rating),
         notes |-> IF Includes(t, NoteLabels.NotesHeader)
                   THEN Trim(SplitFirst(SplitSecond(t, NoteLabels.NotesHeader),
                                        FooterRule))
                   ELSE <<>>,
         id |-> NoteLabels.NoteIdPrefix \o NumberToString(clock)]

----------------------------------------------------------------------------
(* extractJsonFromText: the dispatcher                                      *)

\* text.match(/<!--JSON_DATA:([^]*?)-->/): the group runs from the first
\* opening to the first closing after it
MatchJsonData(t) ==
    LET p == IndexFrom(t, JsonDataOpen, 1)
        s == p + Len(JsonDataOpen)
        q == IndexFrom(t, JsonDataClose, s)
    IN  IF p = 0 \/ q = 0 THEN NoMatch
        ELSE [found |-> TRUE, g1 |-> SubSeq(t, s, q - 1)]

\* ParseByKind with the section headers looked for before the markers, and
\* the method marker before the bean marker
ParseByKind_HeadersFirst(t, clock) ==
    IF Includes(t, BeanHeader)
    THEN [t |-> "bean", v |-> parseCoffeeBeanText(t)]
    ELSE IF Includes(t, MethodHeader)
    THEN [t |-> "method", v |-> parseMethodText(t, clock)]
    ELSE IF Includes(t, NoteHeader)
    THEN [t |-> "note", v |-> parseBrewingNoteText(t, clock)]
    ELSE IF Includes(t, MarkerMethod)
    THEN [t |-> "method", v |-> parseMethodText(t, clock)]
    ELSE IF Includes(t, MarkerBean)
    THEN [t |-> "bean", v |-> parseCoffeeBeanText(t)]
    ELSE IF Includes(t, MarkerNote)
    THEN [t |-> "note", v |-> parseBrewingNoteText(t, clock)]
    ELSE JNull

\* the text parser the hidden type marker selects, then the one the
\* section header selects; null when the text has neither
ParseByKind(t, clock) ==
    IF Includes(t, MarkerBean)
    THEN [t |-> "bean", v |-> parseCoffeeBeanText(t)]
    ELSE IF Includes(t, MarkerMethod)
    THEN [t |-> "method", v |-> parseMethodText(t, clock)]
    ELSE IF Includes(t, MarkerNote)
    THEN [t |-> "note", v |-> parseBrewingNoteText(t, clock)]
    ELSE IF Includes(t, BeanHeader)
    THEN [t |-> "bean", v |-> parseCoffeeBeanText(t)]
    ELSE IF Includes(t, MethodHeader)
    THEN [t |-> "method", v |-> parseMethodText(t, clock)]
    ELSE IF Includes(t, NoteHeader)
    THEN [t |-> "note", v |-> parseBrewingNoteText(t, clock)]
    ELSE JNull

\* ExtractBody with the markers looked for before the legacy block
ExtractBody_MarkersFirst(t, clock) ==
    LET data == JSONparse(t)
        jsonMatch == MatchJsonData(t)
    IN  IF data.t # "throw" THEN data
        ELSE IF ParseByKind(t, clock) # JNull THEN ParseByKind(t, clock)
        ELSE IF jsonMatch.found /\ jsonMatch.g1 # <<>>
        THEN JSONparse(jsonMatch.g1)
        ELSE JNull

\* the body of the outer try block
ExtractBody(t, clock) ==
    LET data == JSONparse(t)
        jsonMatch == MatchJsonData(t)
    IN  IF data.t # "throw" THEN data
        ELSE IF jsonMatch.found /\ jsonMatch.g1 # <<>>
        THEN JSONparse(jsonMatch.g1)
        ELSE ParseByKind(t, clock)

\* extractJsonFromText without its outer catch block
extractJsonFromText_Uncaught(t, clock) == ExtractBody(t, clock)

\* try { ... } catch { return null; }
extractJsonFromText(t, clock) == Catch(ExtractBody(t, clock), JNull)

----------------------------------------------------------------------------
(* The JSON documents given to parseMethodFromJson                          *)

\* the most stage entries of a document (above one entry, and above two
\* for the documents that vary every entry)
MaxStages == 2

\* the JSON text of a value, as JSON.stringify(x) writes it: a member whose
\* value is undefined is left out
RECURSIVE JsonText(_)
RECURSIVE JsonJoin(_, _)
JsonText(x) ==
    CASE x.t = "string" -> <<"\"">> \o x.v \o <<"\"">>
      [] x.t = "array" -> <<"[">> \o JsonJoin(x.v, FALSE) \o <<"]">>
      [] x.t = "object" ->
            <<"{">>
            \o JsonJoin(SelectSeq(x.v, LAMBDA m : m.v.t # "undefined"), TRUE)
            \o <<"}">>
      [] OTHER -> ToStr(x)

\* the elements of an array, or the members of an object, comma-separated
JsonJoin(xs, members) ==
    IF xs = <<>> THEN <<>>
    ELSE LET first == IF members
                      THEN <<"\"">> \o Head(xs).k \o <<"\"", ":">>
                           \o JsonText(Head(xs).v)
                      ELSE JsonText(Head(xs))
         IN  IF Len(xs) = 1 THEN first
             ELSE first \o <<",">> \o JsonJoin(Tail(xs), members)

Member(key, val) == [k |-> key, v |-> val]

\* a stage entry with the two enumerated fields
StageEntry(pourType, valveStatus) ==
    JObj(<<Member(K.pourType, pourType), Member(K.valveStatus, valveStatus)>>)

\* a stage entry with the fields of StageData, in the manner of
\* getExampleJson
ExampleStage ==
    JObj(<<Member(K.time, JNum(30)), Member(K.pourTime, JNum(15)),
           Member(K.label, JStr(<<"u7116", "u84B8">>)),
           Member(K.water, JStr(<<"4", "5", "g">>)),
           Member(K.detail, JStr(<<"u6405", "u62CC">>)),
           Member(K.pourType, JStr(K.circle))>>)

PourTypeInputs ==
    {JUndefined, JStr(K.center), JStr(K.circle), JStr(K.ice), JStr(K.other),
     JStr(K.spiral), JStr(<<>>), JNum(1), JNull}

ValveStatusInputs ==
    {JUndefined, JStr(K.open), JStr(K.closed),
     JStr(<<"h", "a", "l", "f", "o", "p", "e", "n">>), JStr(<<>>), JNum(1),
     JNum(0), JNull}

\* the entries of a one-stage document
StageEntries ==
    {StageEntry(p, v) : p \in PourTypeInputs, v \in ValveStatusInputs}
    \cup {ExampleStage, JNull, JNum(7), JStr(<<"s">>)}

\* the entries of a document of several stages
FewStageEntries ==
    {JNull, JObj(<<>>), ExampleStage,
     StageEntry(JStr(K.spiral),
                JStr(<<"h", "a", "l", "f", "o", "p", "e", "n">>)),
     StageEntry(JStr(K.center), JStr(K.open))}

\* the sequences of length lo..hi over S
SeqsOf(S, lo, hi) == UNION {[1..n -> S] : n \in lo..hi}

\* what params.stages may be
StagesInputs ==
    {JUndefined, JNull, JStr(<<"s">>), JObj(<<>>), JArr(<<>>)}
    \cup {JArr(<<e>>) : e \in {JObj(<<>>), JNull, JNum(7)}}

MethodNameInputs == {JUndefined, JStr(<<>>), JStr(<<"X">>), JNum(0)}

EquipmentInputs ==
    {JUndefined, JNull, JStr(<<>>), JStr(<<"V", "6", "0">>), JNum(7)}

\* what a scalar param may be: absent, empty, or a value
ScalarInputs(value) == {JUndefined, JStr(<<>>), JStr(value)}

Document(name, equipment, id, params) ==
    JObj(<<Member(K.method, name), Member(K.equipment, equipment),
           Member(K.id, id), Member(K.params, params)>>)

Params(coffee, water, ratio, grindSize, temp, stages) ==
    JObj(<<Member(K.coffee, coffee), Member(K.water, water),
           Member(K.ratio, ratio), Member(K.grindSize, grindSize),
           Member(K.temp, temp), Member(K.stages, stages)>>)

StagesOnly(stages) ==
    Params(JUndefined, JUndefined, JUndefined, JUndefined, JUndefined,
           stages)

\* documents that vary the required fields and the shape of params
ShapeDocuments ==
    {Document(name, equipment, JUndefined, params) :
        name \in MethodNameInputs, equipment \in EquipmentInputs,
        params \in {JUndefined, JNull, JStr(<<"p">>)}
                   \cup {StagesOnly(s) : s \in StagesInputs}}

\* documents that vary the five scalar params
ScalarDocuments ==
    {Document(JStr(<<"X">>), JUndefined, JStr(<<"m", "1">>),
              Params(coffee, water, ratio, grindSize, temp,
                     JArr(<<ExampleStage>>))) :
        coffee \in ScalarInputs(<<"2", "0", "g">>),
        water \in ScalarInputs(<<"3", "0", "0", "g">>),
        ratio \in ScalarInputs(<<"1", ":", "1", "6">>),
        grindSize \in ScalarInputs(<<"u7EC6">>),
        temp \in ScalarInputs(<<"9", "0", "C">>) \cup {JNum(90), JNum(0)}}

\* documents that vary the stage entries
StageDocuments ==
    {Document(JUndefined, JStr(<<"V", "6", "0">>), JUndefined,
              StagesOnly(JArr(stages))) :
        stages \in SeqsOf(StageEntries, 1, 1)
                   \cup SeqsOf(FewStageEntries, 2, MaxStages)}

\* texts that are no object document, or no JSON at all
OtherJsonStrings ==
    {JsonText(JNull), JsonText(JNum(5)), JsonText(JStr(<<"X">>)),
     JsonText(JArr(<<>>)), JsonText(JBool(TRUE)),
     <<>>, <<"{">>, <<"X">>,
     JsonText(Document(JStr(<<"X">>), JUndefined, JUndefined,
                       StagesOnly(JArr(<<ExampleStage>>)))) \o <<" ", "x">>}

JsonStrings ==
    {JsonText(d) : d \in ShapeDocuments \cup ScalarDocuments
                         \cup StageDocuments}
    \cup OtherJsonStrings

\* the characters Math.random().toString(36).substr(2, 9) may give
RandomSuffixes == {<<>>, <<"i">>, <<"4", "f", "z", "z">>}

NoMethod ==
    [id |-> <<>>, name |-> <<>>,
     params |-> [coffee |-> <<>>, water |-> <<>>, ratio |-> <<>>,
                 grindSize |-> <<>>, temp |-> <<>>, videoUrl |-> <<>>,
                 stages |-> <<>>]]

----------------------------------------------------------------------------
(* The Methods given to methodToReadableText                                *)

\* the most scalar params of a Method that are not the empty string
MaxSetParams == 2

ParamLabels ==
    {LabelCoffee, LabelWater, LabelRatio, LabelGrindSize, LabelTemp}

\* what a scalar param may hold: nothing, a value, a value after a space, a
\* value before a space, a lone space, the placeholder itself, and a value
\* that reads as another param's line
ParamInputs ==
    {<<>>, <<"1", "5", "g">>, <<" ", "1", "5", "g">>,
     <<"1", ":", "1", "5", " ">>, <<" ">>, Unset, LabelWater \o <<"5">>}

ParamsInputs ==
    {p \in [{"coffee", "water", "ratio", "grindSize", "temp"} -> ParamInputs] :
        Cardinality({f \in DOMAIN p : p[f] # <<>>}) <= MaxSetParams}

Stage(time, pourTime, label, water, detail, pourType) ==
    [time |-> time, pourTime |-> pourTime, label |-> label, water |-> water,
     detail |-> detail, pourType |-> pourType]

\* a stage as parseMethodFromJson returns it, with pourTime and pourType
BloomStage ==
    Stage(30, 15, <<"u7116", "u84B8">>, <<"4", "5", "g">>, <<>>, K.circle)

\* a stage with neither pourTime nor pourType
PlainStage == Stage(90, 0, <<"x">>, <<"9", "0", "g">>, <<"d">>, <<>>)

StageInputs ==
    {BloomStage, PlainStage,
     Stage(0, 0, KwCenter, <<>>, <<>>, K.center),
     Stage(125, 25, <<"a", "-", "b">>, <<"2", "2", "5", "g">>, KwIce, K.ice),
     Stage(60, 0, <<>>, <<"1", "0", "0", "g">>, KwCentral, <<>>),
     Stage(20, 5, KwCentral, <<"5", "0", "g">>, <<>>, K.center),
     Stage(45, 10, <<"y">>, <<"6", "0", "g">>, <<"d">>, K.other)}

MethodOf(name, p, stages) ==
    [id |-> <<"m", "1">>, name |-> name,
     params |-> [coffee |-> p["coffee"], water |-> p["water"],
                 ratio |-> p["ratio"], grindSize |-> p["grindSize"],
                 temp |-> p["temp"], videoUrl |-> <<>>, stages |-> stages]]

ExampleParams ==
    [f \in {"coffee", "water", "ratio", "grindSize", "temp"} |->
        CASE f = "coffee" -> <<"1", "5", "g">>
          [] f = "water" -> <<"2", "2", "5", "g">>
          [] f = "ratio" -> <<"1", ":", "1", "5">>
          [] f = "grindSize" -> DefaultGrindSize
          [] f = "temp" -> <<"9", "2", "C">>]

\* Methods that vary the scalar params, under a plain name and under a name
\* that reads as a param line, with and without a stage
ParamMethods ==
    {MethodOf(name, p, <<PlainStage>>) :
        name \in {<<"A">>, <<"A">> \o LabelTemp \o <<"9">>},
        p \in ParamsInputs}
    \cup {MethodOf(<<"A">>, p, <<>>) : p \in ParamsInputs}

\* Methods that vary the stages
StageMethods ==
    {MethodOf(name, ExampleParams, stages) :
        name \in {<<"A">>, <<" ", "V", "6", "0", " ", "A">>},
        stages \in SeqsOf(StageInputs, 1, MaxStages)}

MethodInputs == ParamMethods \cup StageMethods

----------------------------------------------------------------------------
(* cleanJsonForOptimization: a JSON document cut down to the known keys     *)

RECURSIVE JSONstringify(_, _)
RECURSIVE StringifyItems(_, _, _)

\* JSON.stringify(x, null, 2) for a value at nesting depth `depth`: a member
\* whose value is undefined is left out, and an empty array or object has no
\* line break
JSONstringify(x, depth) ==
    LET outer == [i \in 1..(2 * depth) |-> " "]
        members == IF x.t = "object"
                   THEN SelectSeq(x.v, LAMBDA m : m.v.t # "undefined")
                   ELSE <<>>
    IN  CASE x.t = "string" -> <<"\"">> \o x.v \o <<"\"">>
          [] x.t = "undefined" -> <<"n", "u", "l", "l">>
          [] x.t = "array" ->
                IF x.v = <<>> THEN <<"[", "]">>
                ELSE <<"[", "\n">> \o StringifyItems(x.v, FALSE, depth + 1)
                     \o <<"\n">> \o outer \o <<"]">>
          [] x.t = "object" ->
                IF members = <<>> THEN <<"{", "}">>
                ELSE <<"{", "\n">> \o StringifyItems(members, TRUE, depth + 1)
                     \o <<"\n">> \o outer \o <<"}">>
          [] OTHER -> ToStr(x)

\* the elements of an array, or the members of an object, one to a line
StringifyItems(xs, members, depth) ==
    LET inner == [i \in 1..(2 * depth) |-> " "]
        first == IF members
                 THEN <<"\"">> \o Head(xs).k \o <<"\"", ":", " ">>
                      \o JSONstringify(Head(xs).v, depth)
                 ELSE JSONstringify(Head(xs), depth)
    IN  IF Len(xs) = 1 THEN inner \o first
        ELSE inner \o first \o <<",", "\n">>
             \o StringifyItems(Tail(xs), members, depth)

StageKeys ==
    <<K.time, K.pourTime, K.label, K.water, K.detail, K.pourType,
      K.valveStatus>>

\* { key: x.key, ... } for the keys given, in their order
Pick(x, keys) ==
    JObj([i \in 1..Len(keys) |-> [k |-> keys[i], v |-> Get(x, keys[i])]])

\* CleanStage that keeps the entry as it is
CleanStage_Whole(stage) == stage

\* the callback of stages.map; reading a property of a null entry throws
CleanStage(stage) ==
    IF stage.t \in {"null", "undefined"} THEN Thrown
    ELSE Pick(stage, StageKeys)

\* data.params?.stages?.map(...): undefined for an absent or null stages,
\* a TypeError for any other value that is not an array
CleanStages(params) ==
    LET stages == OptGet(params, K.stages)
        cleaned == [i \in 1..Len(stages.v) |-> CleanStage(stages.v[i])]
    IN  IF stages.t \in {"undefined", "null"} THEN JUndefined
        ELSE IF stages.t # "array" THEN Thrown
        ELSE IF \E i \in 1..Len(cleaned) : cleaned[i].t = "throw" THEN Thrown
        ELSE JArr(cleaned)

\* the object literal cleanedData
CleanedData(data) ==
    LET params == Get(data, K.params)
        scalar(key) == [k |-> key, v |-> OptGet(params, key)]
        top(key) == [k |-> key, v |-> Get(data, key)]
    IN  JObj(<<top(K.equipment), top(K.method),
               [k |-> K.params,
                v |-> JObj(<<scalar(K.coffee), scalar(K.water),
                             scalar(K.ratio), scalar(K.grindSize),
                             scalar(K.temp),
                             [k |-> K.stages, v |-> CleanStages(params)]>>)],
               top(K.currentTaste), top(K.idealTaste), top(K.notes),
               top(K.optimizationGoal)>>)

\* try { ... return JSON.stringify(cleanedData, null, 2); }
\* catch (_err) { return jsonString; }
cleanJsonForOptimization(jsonString) ==
    LET data == JSONparse(jsonString)
    IN  IF data.t \in {"throw", "null"} THEN jsonString
        ELSE IF CleanStages(Get(data, K.params)).t = "throw" THEN jsonString
        ELSE JSONstringify(CleanedData(data), 0)

----------------------------------------------------------------------------
(* beanToReadableText: a CoffeeBean as readable text                        *)

\* parts.join(sep)
RECURSIVE Join(_, _)
Join(parts, sep) ==
    IF Len(parts) = 0 THEN <<>>
    ELSE IF Len(parts) = 1 THEN parts[1]
    ELSE parts[1] \o sep \o Join(Tail(parts), sep)

\* the line `<label> <value><suffix>\n`, written when the value is not empty
OptionalLine(label, value, suffix) ==
    IF value # <<>> THEN label \o <<" ">> \o value \o suffix \o <<"\n">>
    ELSE <<>>

\* RemainingText without the remaining amount
RemainingText_Never(capacity, remaining) == <<>>

\* what follows `<capacity>g` on the capacity line
RemainingText(capacity, remaining) ==
    IF remaining # capacity
    THEN <<" ", "(">> \o BeanLabels.RemainingPrefix \o remaining
         \o <<"g", ")">>
    ELSE <<>>

\* the origin, process and variety of a component that are not empty
BlendDetails(comp) ==
    SelectSeq(<<comp.origin, comp.process, comp.variety>>,
              LAMBDA d : d # <<>>)

\* the lines of the components from index on (counted from 0)
RECURSIVE BlendText(_, _)
BlendText(blendComponents, index) ==
    IF index >= Len(blendComponents) THEN <<>>
    ELSE <<" ", " ">> \o NumberToString(index + 1) \o <<".", " ">>
         \o NumberToString(blendComponents[index + 1].percentage)
         \o <<"%", " ">>
         \o Join(BlendDetails(blendComponents[index + 1]), <<" ", "|", " ">>)
         \o <<"\n">>
         \o BlendText(blendComponents, index + 1)

beanToReadableText(bean) ==
    BeanHeader \o bean.name \o <<"\n">>
    \o BeanLabels.Capacity \o <<" ">> \o bean.capacity \o <<"g">>
    \o RemainingText(bean.capacity, bean.remaining) \o <<"\n">>
    \o BeanLabels.Roast \o <<" ">>
    \o OrElse(bean.roastLevel, BeanLabels.Unknown) \o <<"\n">>
    \o OptionalLine(BeanLabels.RoastDate, bean.roastDate, <<>>)
    \o OptionalLine(BeanLabels.Origin, bean.origin, <<>>)
    \o OptionalLine(BeanLabels.Process, bean.process, <<>>)
    \o OptionalLine(BeanLabels.Variety, bean.variety, <<>>)
    \o OptionalLine(BeanLabels.Type, bean.type, <<>>)
    \o OptionalLine(BeanLabels.Price, bean.price, BeanLabels.Yuan)
    \o (IF Len(bean.flavor) > 0
        THEN BeanLabels.Flavor \o <<" ">> \o Join(bean.flavor, <<",", " ">>)
             \o <<"\n">>
        ELSE <<>>)
    \o (IF Len(bean.blendComponents) > 0
        THEN <<"\n">> \o BeanLabels.BlendHeader \o <<"\n">>
             \o BlendText(bean.blendComponents, 0)
        ELSE <<>>)
    \o (IF bean.notes # <<>>
        THEN <<"\n">> \o BeanLabels.Notes \o <<" ">> \o bean.notes \o <<"\n">>
        ELSE <<>>)
    \o <<"\n">> \o MethodFooter
    \o <<"\n", "\n">> \o MarkerBean

----------------------------------------------------------------------------
(* brewingNoteToReadableText: a BrewingNote as readable text                *)

\* the line `<label> <value || "未设置">\n`
LineOrUnset(label, value) ==
    label \o <<" ">> \o OrElse(value, Unset) \o <<"\n">>

\* the line `<label> <score || 0>/5\n`
ScoreLine(label, score) ==
    label \o <<" ">> \o NumberToString(score) \o <<"/", "5", "\n">>

\* coffeeBeanInfo?.<field>: the empty string stands for undefined here, as
\* both give the placeholder
BeanInfoOf(note) ==
    IF note.coffeeBeanInfo = JUndefined
    THEN [name |-> <<>>, roastLevel |-> <<>>]
    ELSE note.coffeeBeanInfo

brewingNoteToReadableText(note) ==
    NoteHeader \o <<"\n">>
    \o LineOrUnset(NoteLabels.Equipment, note.equipment)
    \o LineOrUnset(NoteLabels.Method, note.method)
    \o LineOrUnset(NoteLabels.Bean, BeanInfoOf(note).name)
    \o LineOrUnset(BeanLabels.Roast, BeanInfoOf(note).roastLevel)
    \o (IF note.params # JUndefined
        THEN <<"\n">> \o NoteLabels.ParamsHeader \o <<"\n">>
             \o LineOrUnset(LabelCoffee, note.params.coffee)
             \o LineOrUnset(LabelWater, note.params.water)
             \o LineOrUnset(LabelRatio, note.params.ratio)
             \o LineOrUnset(LabelGrindSize, note.params.grindSize)
             \o LineOrUnset(LabelTemp, note.params.temp)
        ELSE <<>>)
    \o (IF note.taste # JUndefined
        THEN <<"\n">> \o NoteLabels.TasteHeader \o <<"\n">>
             \o ScoreLine(NoteLabels.Acidity, note.taste.acidity)
             \o ScoreLine(NoteLabels.Sweetness, note.taste.sweetness)
             \o ScoreLine(NoteLabels.Bitterness, note.taste.bitterness)
             \o ScoreLine(NoteLabels.Body, note.taste.body)
        ELSE <<>>)
    \o (IF note.rating # 0
        THEN <<"\n">> \o ScoreLine(NoteLabels.Rating, note.rating)
        ELSE <<>>)
    \o (IF note.notes # <<>>
        THEN <<"\n">> \o NoteLabels.NotesHeader \o <<"\n">> \o note.notes
             \o <<"\n">>
        ELSE <<>>)
    \o <<"\n">> \o NoteLabels.NoteFooter
    \o <<"\n", "\n">> \o MarkerNote

----------------------------------------------------------------------------
(* Importing a JSON document: one call of parseMethodFromJson               *)

InitJson ==
    /\ pc = "json"
    /\ method = NoMethod
    /\ text \in JsonStrings
    /\ result = JUndefined
    /\ now = 0
    /\ calls = <<>>

ParseMethodFromJson ==
    /\ pc = "json"
    /\ \E suffix \in RandomSuffixes :
          result' = parseMethodFromJson(text, now, suffix)
    /\ pc' = "done"
    /\ UNCHANGED <<method, text, now, calls>>

NextJson == ParseMethodFromJson

SpecJson == InitJson /\ [][NextJson]_vars

----------------------------------------------------------------------------
(* Sharing a Method as text and importing the text                          *)

InitMethodText ==
    /\ pc = "format"
    /\ method \in MethodInputs
    /\ text = <<>>
    /\ result = JUndefined
    /\ now = 0
    /\ calls = <<>>

FormatMethod ==
    /\ pc = "format"
    /\ text' = methodToReadableText(method)
    /\ pc' = "extract"
    /\ UNCHANGED <<method, result, now, calls>>

ExtractText ==
    /\ pc = "extract"
    /\ result' = extractJsonFromText(text, now)
    /\ pc' = "done"
    /\ UNCHANGED <<method, text, now, calls>>

NextMethodText == FormatMethod \/ ExtractText

SpecMethodText == InitMethodText /\ [][NextMethodText]_vars

----------------------------------------------------------------------------
(* Importing several times: the ids of the Methods                          *)

\* the latest reading of Date.now(), counted from the first
MaxClock == 1

\* the most imports of one behaviour
MaxCalls == 2

\* the ids a text may carry in its @METHOD_ID:...@ tag
EmbeddedIds == {MethodIdPrefix \o <<"a", "1">>}

\* the ids a JSON document may carry in its id field: one of another
\* application, and one as parseMethodFromJson writes them
DocumentIds == {<<"m", "1">>, FreshId(0, <<"i">>)}

IdDocument(id) ==
    Document(JStr(<<"X">>), JUndefined, id,
             StagesOnly(JArr(<<ExampleStage>>)))

IdJsonStrings ==
    {JsonText(IdDocument(JUndefined))}
    \cup {JsonText(IdDocument(JStr(id))) : id \in DocumentIds}

SharedText == methodToReadableText(MethodOf(<<"A">>, ExampleParams,
                                            <<BloomStage>>))

\* the shared text as it is, with a tag, and with a tag that is not of the
\* form method-...
IdTexts ==
    {SharedText}
    \cup {SharedText \o <<"\n">> \o MethodIdTag \o id \o <<"@">> :
             id \in EmbeddedIds}
    \cup {SharedText \o <<"\n">> \o MethodIdTag \o <<"a", "1", "@">>}

InitIds ==
    /\ pc = "idle"
    /\ method = NoMethod
    /\ text = <<>>
    /\ result = JUndefined
    /\ now = 0
    /\ calls = <<>>

\* time passes between two calls
Tick ==
    /\ now < MaxClock
    /\ now' = now + 1
    /\ UNCHANGED <<pc, method, text, result, calls>>

Call(fn, input, rand, out) ==
    [fn |-> fn, input |-> input, at |-> now, rand |-> rand,
     ok |-> out.t = "method",
     id |-> IF out.t = "method" THEN out.v.id ELSE <<>>]

ImportJson ==
    /\ Len(calls) < MaxCalls
    /\ \E jsonString \in IdJsonStrings, suffix \in RandomSuffixes :
          /\ text' = jsonString
          /\ result' = parseMethodFromJson(jsonString, now, suffix)
          /\ calls' = Append(calls, Call("parseMethodFromJson", jsonString,
                                         suffix, result'))
    /\ UNCHANGED <<pc, method, now>>

ImportText ==
    /\ Len(calls) < MaxCalls
    /\ \E t \in IdTexts :
          /\ text' = t
          /\ result' = extractJsonFromText(t, now)
          /\ calls' = Append(calls, Call("extractJsonFromText", t, <<>>,
                                         result'))
    /\ UNCHANGED <<pc, method, now>>

NextIds == Tick \/ ImportJson \/ ImportText

SpecIds == InitIds /\ [][NextIds]_vars

----------------------------------------------------------------------------
(* Importing a text of any kind: one call of extractJsonFromText            *)

\* the most pieces of a text
MaxSegments == 3

JsonFragment == JsonText(JObj(<<Member(<<"a">>, JNum(1))>>))

\* the pieces a text is made of: the three markers, the three headers with
\* a name, a legacy block with valid, invalid and no content, a JSON
\* fragment, and a marker as a JSON string
Segments ==
    {MarkerBean, MarkerMethod, MarkerNote,
     BeanHeader \o <<"B", "\n">>, MethodHeader \o <<"M", "\n">>,
     NoteHeader \o <<"N", "\n">>,
     JsonDataOpen \o JsonFragment \o JsonDataClose,
     JsonDataOpen \o <<"{">> \o JsonDataClose,
     JsonDataOpen \o JsonDataClose,
     JsonFragment,
     JsonText(JStr(MarkerBean))}

RECURSIVE Concat(_)
Concat(pieces) ==
    IF pieces = <<>> THEN <<>> ELSE Head(pieces) \o Concat(Tail(pieces))

\* the texts of up to MaxSegments different pieces, in any order
DispatchTexts ==
    {Concat(pieces) :
        pieces \in {s \in SeqsOf(Segments, 0, MaxSegments) :
                       \A i, j \in DOMAIN s : i # j => s[i] # s[j]}}

InitDispatch ==
    /\ pc = "extract"
    /\ method = NoMethod
    /\ text \in DispatchTexts
    /\ result = JUndefined
    /\ now = 0
    /\ calls = <<>>

NextDispatch == ExtractText

SpecDispatch == InitDispatch /\ [][NextDispatch]_vars

----------------------------------------------------------------------------
(* Cleaning a JSON document, and cleaning the output again                  *)

\* a stage entry with a key that is not a Stage field
ForeignStage ==
    JObj(<<Member(K.time, JNum(30)), Member(K.label, JStr(<<"x">>)),
           Member(K.id, JStr(<<"s", "1">>)), Member(K.pourType, JNull)>>)

\* documents with keys that are not kept, at each level, over every shape of
\* params.stages
CleanDocuments ==
    {JObj(<<Member(K.id, JStr(<<"m", "1">>)),
            Member(K.method, JStr(<<"X">>)),
            Member(K.params,
                   JObj(<<Member(K.coffee, JStr(<<"1", "5", "g">>)),
                          Member(K.videoUrl, JStr(<<"v">>)),
                          Member(K.stages, stages)>>)),
            Member(K.currentTaste, taste),
            Member(K.notes, JStr(<<>>))>>) :
        stages \in StagesInputs
                   \cup {JNum(0), JBool(FALSE), JStr(<<>>),
                         JArr(<<ForeignStage, ExampleStage>>),
                         JArr(<<ForeignStage, JNull>>)},
        taste \in {JUndefined, JObj(<<Member(<<"a">>, JNum(3))>>)}}

CleanStrings == JsonStrings \cup {JsonText(d) : d \in CleanDocuments}

InitClean ==
    /\ pc = "clean"
    /\ method = NoMethod
    /\ text \in CleanStrings
    /\ result = JUndefined
    /\ now = 0
    /\ calls = <<>>

CleanJson ==
    /\ pc = "clean"
    /\ result' = cleanJsonForOptimization(text)
    /\ pc' = "cleaned"
    /\ UNCHANGED <<method, text, now, calls>>

\* the output is given to cleanJsonForOptimization in its turn
CleanJsonAgain ==
    /\ pc = "cleaned"
    /\ calls' = <<[fn |-> "cleanJsonForOptimization", input |-> text,
                   out |-> result]>>
    /\ text' = result
    /\ result' = cleanJsonForOptimization(result)
    /\ pc' = "done"
    /\ UNCHANGED <<method, now>>

NextClean == CleanJson \/ CleanJsonAgain

SpecClean == InitClean /\ [][NextClean]_vars

----------------------------------------------------------------------------
(* Sharing a CoffeeBean as text and importing the text                      *)

\* the most blend components of a bean
MaxComponents == 2

Component(percentage, origin, process, variety) ==
    [percentage |-> percentage, origin |-> origin, process |-> process,
     variety |-> variety]

ComponentInputs ==
    {Component(60, <<"E">>, <<>>, <<>>),
     Component(40, <<"K">>, <<"w">>, <<"v">>),
     Component(100, <<>>, <<>>, <<>>)}

\* capacity and remaining as the form keeps them: digits, or empty as in
\* generateBeanTemplateJson
CapacityInputs == {<<>>, <<"2", "0", "0">>, <<"5">>}

RemainingInputs == {<<>>, <<"2", "0", "0">>, <<"1", "5", "0">>}

\* a plain name, and a name that reads as a remaining amount
BeanNameInputs == {<<"B">>, BeanLabels.RemainingPrefix \o <<"5", "g">>}

\* the other fields, all empty or all set
Bean(name, capacity, remaining, set, notes, blendComponents) ==
    [name |-> name, capacity |-> capacity, remaining |-> remaining,
     roastLevel |-> IF set THEN <<"M">> ELSE <<>>,
     roastDate |-> IF set THEN <<"2", "4", "-", "0", "1">> ELSE <<>>,
     flavor |-> IF set THEN <<<<"a">>, <<"b", "c">>>> ELSE <<>>,
     origin |-> IF set THEN <<"E">> ELSE <<>>,
     process |-> IF set THEN <<"w">> ELSE <<>>,
     variety |-> IF set THEN <<"v">> ELSE <<>>,
     price |-> IF set THEN <<"8", "8">> ELSE <<>>,
     type |-> IF set THEN <<"t">> ELSE <<>>,
     notes |-> notes,
     blendComponents |-> blendComponents]

BeanInputs ==
    {Bean(name, capacity, remaining, set, notes, blendComponents) :
        name \in BeanNameInputs, capacity \in CapacityInputs,
        remaining \in RemainingInputs, set \in BOOLEAN,
        notes \in {<<>>, <<"n">>},
        blendComponents \in SeqsOf(ComponentInputs, 0, MaxComponents)}

InitBeanText ==
    /\ pc = "format"
    /\ method = NoMethod
    /\ text = <<>>
    /\ result = JUndefined
    /\ now = 0
    /\ calls = <<>>

\* the bean is kept in the log of calls for the comparison with the import
FormatBean ==
    /\ pc = "format"
    /\ \E bean \in BeanInputs :
          /\ text' = beanToReadableText(bean)
          /\ calls' = <<[fn |-> "beanToReadableText", input |-> bean]>>
    /\ pc' = "extract"
    /\ UNCHANGED <<method, result, now>>

NextBeanText == FormatBean \/ ExtractText

SpecBeanText == InitBeanText /\ [][NextBeanText]_vars

----------------------------------------------------------------------------
(* Sharing a BrewingNote as text and importing the text                     *)

Taste(acidity, sweetness, bitterness, body) ==
    [acidity |-> acidity, sweetness |-> sweetness,
     bitterness |-> bitterness, body |-> body]

\* no taste, and tastes whose scores are 0 or another value of 0..5
TasteInputs ==
    {JUndefined}
    \cup {Taste(a, s, b, b + d) : a \in {0, 3}, s \in {0, 5}, b \in {0, 1},
                                  d \in {0, 4}}

RatingInputs == {0, 3, 5}

\* no equipment, an equipment, and an equipment that reads as a score line
NoteEquipmentInputs ==
    {<<>>, <<"V", "6", "0">>, NoteLabels.Acidity \o <<" ", "2", "/", "5">>}

\* no notes, one line, and a line that reads as the rating line
NoteNotesInputs ==
    {<<>>, <<"n">>, NoteLabels.Rating \o <<" ", "4", "/", "5">>}

BeanInfoInputs ==
    {JUndefined, [name |-> <<>>, roastLevel |-> <<>>],
     [name |-> <<"B">>, roastLevel |-> <<"M">>]}

NoteParamsInputs ==
    {JUndefined,
     [coffee |-> <<>>, water |-> <<>>, ratio |-> <<>>, grindSize |-> <<>>,
      temp |-> <<>>],
     [coffee |-> <<"1", "5", "g">>, water |-> <<>>, ratio |-> <<"1", ":", "2">>,
      grindSize |-> <<>>, temp |-> <<"9", "2">>]}

NoteInputs ==
    {[equipment |-> equipment, method |-> methodName,
      coffeeBeanInfo |-> coffeeBeanInfo, params |-> params,
      rating |-> rating, taste |-> taste, notes |-> notes] :
        equipment \in NoteEquipmentInputs,
        methodName \in {<<>>, <<"m">>},
        coffeeBeanInfo \in BeanInfoInputs, params \in NoteParamsInputs,
        rating \in RatingInputs, taste \in TasteInputs,
        notes \in NoteNotesInputs}

InitNoteText ==
    /\ pc = "format"
    /\ method = NoMethod
    /\ text = <<>>
    /\ result = JUndefined
    /\ now = 0
    /\ calls = <<>>

\* the note is kept in the log of calls for the comparison with the import
FormatNote ==
    /\ pc = "format"
    /\ \E note \in NoteInputs :
          /\ text' = brewingNoteToReadableText(note)
          /\ calls' = <<[fn |-> "brewingNoteToReadableText", input |-> note]>>
    /\ pc' = "extract"
    /\ UNCHANGED <<method, result, now>>

NextNoteText == FormatNote \/ ExtractText

SpecNoteText == InitNoteText /\ [][NextNoteText]_vars

----------------------------------------------------------------------------
(* Properties of the text round trip of a Method                            *)

Imported == pc = "done" /\ result.t = "method"

\* C1: for every Method with at least one stage, importing its formatted
\* text gives a Method of the same name whose stages, in the same order and
\* of the same count, carry the same time, label and water.
C1_RoundTripKeepsTriples ==
    (pc = "done" /\ Len(method.params.stages) >= 1) =>
        /\ result.t = "method"
        /\ result.v.name = method.name
        /\ Len(result.v.params.stages) = Len(method.params.stages)
        /\ \A i \in 1..Len(method.params.stages) :
              /\ i <= Len(result.v.params.stages)
              /\ result.v.params.stages[i].time = method.params.stages[i].time
              /\ result.v.params.stages[i].label
                    = method.params.stages[i].label
              /\ result.v.params.stages[i].water
                    = method.params.stages[i].water

ScalarLabel(f) ==
    CASE f = "coffee" -> LabelCoffee
      [] f = "water" -> LabelWater
      [] f = "ratio" -> LabelRatio
      [] f = "grindSize" -> LabelGrindSize
      [] f = "temp" -> LabelTemp

ScalarFields == {"coffee", "water", "ratio", "grindSize", "temp"}

ScalarOf(params, f) ==
    CASE f = "coffee" -> params.coffee
      [] f = "water" -> params.water
      [] f = "ratio" -> params.ratio
      [] f = "grindSize" -> params.grindSize
      [] f = "temp" -> params.temp

\* neither the name nor a scalar param holds one of the five labels
NoLabelInValues ==
    \A label \in ParamLabels :
        /\ ~Includes(method.name, label)
        /\ \A f \in ScalarFields : ~Includes(ScalarOf(method.params, f), label)

\* C2, as amended: when neither the name nor a scalar param of the Method
\* holds one of the five labels, an empty param is written as its label and
\* the placeholder and reads back as the empty string, and a param that is
\* not empty, is not the placeholder itself and has no leading or trailing
\* whitespace reads back as itself.
C2_PlaceholderAndTrimmedValue ==
    (Imported /\ NoLabelInValues) =>
        \A f \in ScalarFields :
            LET v == ScalarOf(method.params, f)
                back == ScalarOf(result.v.params, f)
            IN  /\ v = <<>> =>
                      /\ Includes(text, ScalarLabel(f) \o <<" ">> \o Unset
                                        \o <<"\n">>)
                      /\ back = <<>>
                /\ (v # <<>> /\ v # Unset /\ Trim(v) = v) => back = v

\* C2: a Method with an empty coffee and a water value has been imported
C2_Witness ==
    /\ Imported
    /\ NoLabelInValues
    /\ method.params.coffee = <<>>
    /\ method.params.water = <<"1", "5", "g">>
    /\ result.v.params.coffee = <<>>
    /\ result.v.params.water = <<"1", "5", "g">>

\* C2, as stated: an empty param reads back as the empty string and every
\* param that is not empty reads back as itself
C2_AsStated ==
    Imported =>
        \A f \in ScalarFields :
            LET v == ScalarOf(method.params, f)
                back == ScalarOf(result.v.params, f)
            IN  /\ v = <<>> =>
                      /\ Includes(text, ScalarLabel(f) \o <<" ">> \o Unset
                                        \o <<"\n">>)
                      /\ back = <<>>
                /\ v # <<>> => back = v

----------------------------------------------------------------------------
(* Properties of parseMethodFromJson                                        *)

\* the document, its params and its stage array, as read from the input text
InputDocument == JSONparse(text)

HasField(x, key) == x.t = "object" /\ \E i \in 1..Len(x.v) : x.v[i].k = key

FieldOf(x, key) == IF HasField(x, key) THEN Get(x, key) ELSE JUndefined

InputField(key) == FieldOf(InputDocument, key)

InputParams == FieldOf(InputDocument, K.params)

StageListOf(params) ==
    LET stages == FieldOf(params, K.stages)
    IN  IF stages.t = "array" THEN stages.v ELSE <<>>

InputStageList == StageListOf(InputParams)

Accepted == pc = "done" /\ result.t = "method"

C4_StageEnumsNormalized ==
    Accepted =>
        LET out == result.v.params.stages
            in == InputStageList
        IN  /\ Len(out) = Len(in)
            /\ \A i \in 1..Len(out) :
                  LET pourType == Get(in[i], K.pourType)
                      valveStatus == Get(in[i], K.valveStatus)
                  IN  /\ out[i].pourType \in PourTypes
                      /\ out[i].pourType =
                            IF pourType \in PourTypes THEN pourType
                            ELSE JStr(K.circle)
                      /\ out[i].valveStatus \in ValveStatuses \cup {JStr(<<>>)}
                      /\ out[i].valveStatus =
                            IF valveStatus \in ValveStatuses THEN valveStatus
                            ELSE JStr(<<>>)

\* C4: a document of two stages, the first with pourType "spiral" and
\* valveStatus "halfopen", the second with "center" and "open", was accepted
C4_Witness ==
    /\ Accepted
    /\ LET in == InputStageList
       IN  /\ Len(in) = 2
           /\ Get(in[1], K.pourType) = JStr(K.spiral)
           /\ Truthy(Get(in[1], K.valveStatus))
           /\ Get(in[1], K.valveStatus) \notin ValveStatuses
           /\ Get(in[2], K.pourType) = JStr(K.center)
    /\ result.v.params.stages[1].pourType = JStr(K.circle)
    /\ result.v.params.stages[2].valveStatus = JStr(K.open)

ScalarDefault(key) ==
    CASE key = K.coffee -> DefaultCoffee
      [] key = K.water -> DefaultWater
      [] key = K.ratio -> DefaultRatio
      [] key = K.grindSize -> DefaultGrindSize
      [] key = K.temp -> DefaultTemp

ScalarKeys == {K.coffee, K.water, K.ratio, K.grindSize, K.temp}

ResultScalar(key) ==
    CASE key = K.coffee -> result.v.params.coffee
      [] key = K.water -> result.v.params.water
      [] key = K.ratio -> result.v.params.ratio
      [] key = K.grindSize -> result.v.params.grindSize
      [] key = K.temp -> result.v.params.temp

\* C5, as amended: for every accepted document, each scalar param of the
\* result equals the input's params value when that value is present and
\* truthy (not "", 0, false or null), and otherwise its fixed default; the
\* name is the input method when that is truthy, and otherwise
\* <equipment> followed by the suffix.
C5_TruthyOrDefault ==
    Accepted =>
        LET document == InputDocument
            params == FieldOf(document, K.params)
            name == FieldOf(document, K.method)
        IN  /\ \A key \in ScalarKeys :
                  ResultScalar(key) =
                     IF Truthy(FieldOf(params, key)) THEN FieldOf(params, key)
                     ELSE JStr(ScalarDefault(key))
            /\ result.v.name =
                  IF Truthy(name) THEN name
                  ELSE JStr(ToStr(FieldOf(document, K.equipment))
                            \o OptimizedSuffix)

\* C5: an accepted document whose coffee is the empty string and whose water
\* is a value
C5_Witness ==
    /\ Accepted
    /\ LET params == InputParams
       IN  /\ FieldOf(params, K.coffee) = JStr(<<>>)
           /\ Truthy(FieldOf(params, K.water))
           /\ result.v.params.water = FieldOf(params, K.water)
    /\ result.v.params.coffee = JStr(DefaultCoffee)

\* C5, as stated: the input's value whenever it is present, the default
\* only when it is absent
C5_AsStated ==
    Accepted =>
        LET document == InputDocument
            params == FieldOf(document, K.params)
            name == FieldOf(document, K.method)
        IN  /\ \A key \in ScalarKeys :
                  ResultScalar(key) =
                     IF FieldOf(params, key).t # "undefined"
                     THEN FieldOf(params, key)
                     ELSE JStr(ScalarDefault(key))
            /\ result.v.name =
                  IF name.t # "undefined" THEN name
                  ELSE JStr(ToStr(FieldOf(document, K.equipment))
                            \o OptimizedSuffix)

----------------------------------------------------------------------------
(* Properties of the ids of imported Methods                                *)

\* C6: two successful calls of parseMethodFromJson on the same input string
\* give two Methods whose ids differ.
C6_SameDocumentDifferentIds ==
    \A i, j \in 1..Len(calls) :
        (/\ i < j
         /\ calls[i].fn = "parseMethodFromJson"
         /\ calls[j].fn = "parseMethodFromJson"
         /\ calls[i].input = calls[j].input
         /\ calls[i].ok
         /\ calls[j].ok)
        => calls[i].id # calls[j].id

\* the id field of a JSON input, and the id in the tag of a text input
CarriedIds(input) ==
    {id \in DocumentIds \cup EmbeddedIds :
        \/ Includes(input, <<"\"">> \o K.id \o <<"\"", ":", "\"">> \o id
                           \o <<"\"">>)
        \/ Includes(input, MethodIdTag \o id \o <<"@">>)}

\* C7, as amended: a Method returned by parseMethodFromJson has the id
\* <clock>-<random suffix> of the moment of the call, whatever id the
\* document carries; a Method returned for a method text has the id of the
\* text's @METHOD_ID:method-...@ tag when the text has one, and the id
\* method-<clock> of the moment of the call otherwise.
C7_IdFreshOrEmbedded ==
    \A i \in 1..Len(calls) :
        calls[i].ok =>
            IF calls[i].fn = "parseMethodFromJson"
            THEN calls[i].id = NumberToString(calls[i].at) \o <<"-">>
                               \o calls[i].rand
            ELSE IF \E id \in EmbeddedIds : id \in CarriedIds(calls[i].input)
            THEN calls[i].id \in EmbeddedIds \cap CarriedIds(calls[i].input)
            ELSE calls[i].id = MethodIdPrefix \o NumberToString(calls[i].at)

\* C7: a text with a tag and a document with an id field have both been
\* imported
C7_Witness ==
    \E i, j \in 1..Len(calls) :
        /\ calls[i].fn = "extractJsonFromText"
        /\ calls[i].ok
        /\ CarriedIds(calls[i].input) # {}
        /\ calls[i].id \in CarriedIds(calls[i].input)
        /\ calls[j].fn = "parseMethodFromJson"
        /\ calls[j].ok
        /\ <<"m", "1">> \in CarriedIds(calls[j].input)
        /\ calls[j].id # <<"m", "1">>

\* C7, as stated: the id of every imported Method is not an id the input
\* carries
C7_AsStated ==
    \A i \in 1..Len(calls) :
        calls[i].ok => calls[i].id \notin CarriedIds(calls[i].input)

----------------------------------------------------------------------------
(* Properties of extractJsonFromText                                        *)

Extracted == pc = "done"

WholeJson == JSONparse(text).t # "throw"

\* the content of the first <!--JSON_DATA:...--> block, when there is one
HasBlock == MatchJsonData(text).found

BlockContent == MatchJsonData(text).g1

BeanRecord == [t |-> "bean", v |-> parseCoffeeBeanText(text)]

MethodRecord == [t |-> "method", v |-> parseMethodText(text, now)]

NoteRecord == [t |-> "note", v |-> parseBrewingNoteText(text, now)]

\* C8, as amended: for every text that contains the marker
\* @DATA_TYPE:COFFEE_BEAN@, is not as a whole valid JSON and has no
\* <!--JSON_DATA:...--> block with content, extractJsonFromText returns the
\* record of the coffee-bean text parser, also when a JSON fragment, another
\* marker or a header stands elsewhere in the text.
C8_BeanMarkerRoutes ==
    (/\ Extracted
     /\ Includes(text, MarkerBean)
     /\ ~WholeJson
     /\ ~(HasBlock /\ BlockContent # <<>>))
    => result = BeanRecord

\* C8: a text with the bean marker, the method marker and a JSON fragment
\* has been given the bean parser's record
C8_Witness ==
    /\ Extracted
    /\ Includes(text, MarkerBean)
    /\ Includes(text, MarkerMethod)
    /\ Includes(text, JsonFragment)
    /\ ~HasBlock
    /\ result = BeanRecord

\* C8, as stated: every text that contains the marker is given the bean
\* parser's record
C8_AsStated ==
    (Extracted /\ Includes(text, MarkerBean)) => result = BeanRecord

\* the result of the third and fourth tiers
ByMarkerOrHeader ==
    IF Includes(text, MarkerBean) THEN BeanRecord
    ELSE IF Includes(text, MarkerMethod) THEN MethodRecord
    ELSE IF Includes(text, MarkerNote) THEN NoteRecord
    ELSE IF Includes(text, BeanHeader) THEN BeanRecord
    ELSE IF Includes(text, MethodHeader) THEN MethodRecord
    ELSE IF Includes(text, NoteHeader) THEN NoteRecord
    ELSE JNull

\* JSON.parse of the block's content, null when it is not valid JSON
BlockValue ==
    IF JSONparse(BlockContent).t = "throw" THEN JNull
    ELSE JSONparse(BlockContent)

C10_NullNeverThrows ==
    Extracted =>
        /\ result.t # "throw"
        /\ (/\ ~WholeJson
            /\ ~HasBlock
            /\ \A m \in {MarkerBean, MarkerMethod, MarkerNote, BeanHeader,
                         MethodHeader, NoteHeader} : ~Includes(text, m))
           => result = JNull
        /\ (/\ ~WholeJson
            /\ HasBlock
            /\ BlockContent # <<>>
            /\ JSONparse(BlockContent).t = "throw")
           => result = JNull

\* C10: a text with a block of invalid content and the bean marker has been
\* given null
C10_Witness ==
    /\ Extracted
    /\ ~WholeJson
    /\ HasBlock
    /\ BlockContent # <<>>
    /\ JSONparse(BlockContent).t = "throw"
    /\ Includes(text, MarkerBean)
    /\ result = JNull

----------------------------------------------------------------------------
(* Properties of cleanJsonForOptimization                                   *)

KeysOf(x) == {x.v[i].k : i \in 1..Len(x.v)}

TopKeys ==
    {K.equipment, K.method, K.params, K.currentTaste, K.idealTaste, K.notes,
     K.optimizationGoal}

ParamKeys == {K.coffee, K.water, K.ratio, K.grindSize, K.temp, K.stages}

\* s is a JSON document with no key beyond the known ones at any of the
\* three levels
IsCleanDocument(s) ==
    LET document == JSONparse(s)
        params == FieldOf(document, K.params)
        stages == FieldOf(params, K.stages)
    IN  /\ document.t = "object"
        /\ KeysOf(document) \subseteq TopKeys
        /\ params.t = "object"
        /\ KeysOf(params) \subseteq ParamKeys
        /\ stages.t \in {"undefined", "array"}
        /\ stages.t = "array" =>
              \A i \in 1..Len(stages.v) :
                  /\ stages.v[i].t = "object"
                  /\ KeysOf(stages.v[i]) \subseteq
                        {StageKeys[j] : j \in 1..Len(StageKeys)}

\* C11, as amended: cleanJsonForOptimization never throws; it returns the
\* input string itself when the input is not valid JSON, is the JSON null,
\* has a params.stages that is neither absent, null nor an array, or has a
\* null entry in params.stages; in every other case it returns a JSON
\* document whose keys, params keys and stage keys are among the known ones;
\* and cleaning an output again returns that output.
C11_CleanOrUnchanged ==
    /\ pc = "cleaned" =>
          LET document == JSONparse(text)
              stages == FieldOf(FieldOf(document, K.params), K.stages)
          IN  IF \/ document.t \in {"throw", "null"}
                 \/ stages.t \notin {"undefined", "null", "array"}
                 \/ /\ stages.t = "array"
                    /\ \E i \in 1..Len(stages.v) : stages.v[i].t = "null"
              THEN result = text
              ELSE IsCleanDocument(result)
    /\ pc = "done" => result = text

\* C11: a document with an id, a videoUrl and a stage with an id has been
\* cleaned to another text, and that text cleaned again
C11_Witness ==
    /\ pc = "done"
    /\ Len(calls) = 1
    /\ Includes(calls[1].input, K.id)
    /\ Includes(calls[1].input, K.videoUrl)
    /\ calls[1].out # calls[1].input
    /\ ~Includes(calls[1].out, K.id)
    /\ Includes(calls[1].out, K.label)
    /\ result = calls[1].out

\* C11, as stated: the input comes back unchanged only for invalid JSON, the
\* JSON null and a params.stages that is not an array; every other input
\* gives a document of the known keys
C11_AsStated ==
    /\ pc = "cleaned" =>
          LET document == JSONparse(text)
              stages == FieldOf(FieldOf(document, K.params), K.stages)
          IN  IF \/ document.t \in {"throw", "null"}
                 \/ stages.t \notin {"undefined", "null", "array"}
              THEN result = text
              ELSE IsCleanDocument(result)
    /\ pc = "done" => result = text

----------------------------------------------------------------------------
(* Properties of the stages read back from the text of a Method             *)

\* the import returned a Method with as many stages as were formatted
SameStageCount ==
    /\ Imported
    /\ Len(result.v.params.stages) = Len(method.params.stages)

SingleLine(s) == \A i \in 1..Len(s) : s[i] \notin LineTerminators

\* C12: a stage with a non-empty single-line detail d, formatted as a step
\* header followed by the line of three spaces and d, is read back with the
\* detail d.
C12_DetailReadBack ==
    SameStageCount =>
        \A i \in 1..Len(method.params.stages) :
            LET detail == method.params.stages[i].detail
            IN  (detail # <<>> /\ SingleLine(detail) /\ Trim(detail) = detail)
                    => result.v.params.stages[i].detail = detail

\* the pourType that the priority order of the claim gives
PourTypeByPriority(detail, label) ==
    IF Includes(detail, KwCenter) \/ Includes(detail, KwCentral)
    THEN K.center
    ELSE IF Includes(detail, KwIce) \/ Includes(detail, KwIceCube)
    THEN K.ice
    ELSE IF Includes(label, KwCenter) \/ Includes(label, KwCentral)
    THEN K.center
    ELSE IF Includes(label, KwIce) \/ Includes(label, KwIceCube)
    THEN K.ice
    ELSE K.circle

\* C13: the pourType of every stage read from a text is decided by the
\* keywords of the step's detail line first, by the same keywords in the
\* label second, and is circle otherwise.
C13_PourTypeByPriority ==
    SameStageCount =>
        \A i \in 1..Len(method.params.stages) :
            result.v.params.stages[i].pourType
                = PourTypeByPriority(method.params.stages[i].detail,
                                     result.v.params.stages[i].label)

----------------------------------------------------------------------------
(* Properties of the text round trip of a CoffeeBean                        *)

\* the bean that was formatted, once its text has been imported
BeanImported == pc = "done" /\ Len(calls) = 1 /\ result.t = "bean"

\* no text field of the bean other than the two amounts holds the label of
\* the capacity or of the remaining amount
NoAmountLabel(bean) ==
    \A field \in {bean.name, bean.roastLevel, bean.roastDate, bean.origin,
                  bean.process, bean.variety, bean.type, bean.notes} :
        /\ ~Includes(field, BeanLabels.Capacity)
        /\ ~Includes(field, BeanLabels.RemainingPrefix)

\* C14, as amended: the bean read back from the formatted text has the
\* capacity of the original, and its remaining when that is not empty; an
\* empty remaining reads back as the capacity.  This holds when no other
\* field of the bean holds the label of one of the two amounts.
C14_AmountsReadBack ==
    (pc = "done" /\ Len(calls) = 1 /\ NoAmountLabel(calls[1].input)) =>
        LET bean == calls[1].input
        IN  /\ result.t = "bean"
            /\ result.v.capacity = bean.capacity
            /\ result.v.remaining
                  = IF bean.remaining # <<>> THEN bean.remaining
                    ELSE bean.capacity

\* C14: a bean with a capacity and a different remaining amount was read
\* back, and so was a bean with a capacity and an empty remaining
C14_Witness ==
    /\ BeanImported
    /\ NoAmountLabel(calls[1].input)
    /\ calls[1].input.capacity = <<"2", "0", "0">>
    /\ calls[1].input.remaining = <<>>
    /\ result.v.remaining = <<"2", "0", "0">>
    /\ Includes(text, BeanLabels.RemainingPrefix)

\* C14, as stated: capacity and remaining read back as they were
C14_AsStated ==
    (pc = "done" /\ Len(calls) = 1) =>
        /\ result.t = "bean"
        /\ result.v.capacity = calls[1].input.capacity
        /\ result.v.remaining = calls[1].input.remaining

\* C15: a bean with k >= 1 blend components is read back with k components,
\* in the same order, each with the percentage of the original component.
C15_BlendReadBack ==
    (pc = "done" /\ Len(calls) = 1
        /\ Len(calls[1].input.blendComponents) >= 1) =>
        LET blendComponents == calls[1].input.blendComponents
        IN  /\ result.t = "bean"
            /\ Len(result.v.blendComponents) = Len(blendComponents)
            /\ \A i \in 1..Len(blendComponents) :
                  /\ i <= Len(result.v.blendComponents)
                  /\ result.v.blendComponents[i].percentage
                        = blendComponents[i].percentage

----------------------------------------------------------------------------
(* Properties of the text round trip of a BrewingNote                       *)

\* the labels and section headers of the note text
NoteTextLabels ==
    {NoteLabels.Equipment, NoteLabels.Method, NoteLabels.Bean,
     BeanLabels.Roast, NoteLabels.ParamsHeader, NoteLabels.TasteHeader,
     NoteLabels.Acidity, NoteLabels.Sweetness, NoteLabels.Bitterness,
     NoteLabels.Body, NoteLabels.Rating, NoteLabels.NotesHeader}
    \cup ParamLabels

\* the text fields of a note
NoteTextFields(note) ==
    {note.equipment, note.method, note.notes, BeanInfoOf(note).name,
     BeanInfoOf(note).roastLevel}
    \cup (IF note.params = JUndefined THEN {}
          ELSE {note.params.coffee, note.params.water, note.params.ratio,
                note.params.grindSize, note.params.temp})

NoLabelInNote(note) ==
    \A field \in NoteTextFields(note), label \in NoteTextLabels :
        ~Includes(field, label)

\* the four scores a note reads back with: its own, or 0 without a taste
ScoresOf(note) ==
    IF note.taste = JUndefined THEN Taste(0, 0, 0, 0) ELSE note.taste

\* the fields that were written as the placeholder read back empty
UnsetReadBackEmpty(note, out) ==
    /\ note.equipment = <<>> => out.equipment = <<>>
    /\ note.method = <<>> => out.method = <<>>
    /\ BeanInfoOf(note).name = <<>> => out.coffeeBeanInfo.name = <<>>
    /\ BeanInfoOf(note).roastLevel = <<>>
          => out.coffeeBeanInfo.roastLevel = <<>>
    /\ note.params # JUndefined =>
          /\ note.params.coffee = <<>> => out.params.coffee = <<>>
          /\ note.params.water = <<>> => out.params.water = <<>>
          /\ note.params.ratio = <<>> => out.params.ratio = <<>>
          /\ note.params.grindSize = <<>> => out.params.grindSize = <<>>
          /\ note.params.temp = <<>> => out.params.temp = <<>>

\* C16, as amended: for a note with integer scores of 0..5 none of whose
\* text fields holds a label of the note text, the note read back from the
\* formatted text has the same rating and the same four taste scores (0 for
\* a note without taste), and every field written as the placeholder reads
\* back as the empty string.
C16_ScoresReadBack ==
    (pc = "done" /\ Len(calls) = 1 /\ NoLabelInNote(calls[1].input)) =>
        /\ result.t = "note"
        /\ result.v.rating = calls[1].input.rating
        /\ result.v.taste = ScoresOf(calls[1].input)
        /\ UnsetReadBackEmpty(calls[1].input, result.v)

\* C16: a note with scores, a rating and no equipment was read back
C16_Witness ==
    /\ pc = "done" /\ Len(calls) = 1 /\ result.t = "note"
    /\ NoLabelInNote(calls[1].input)
    /\ calls[1].input.taste = Taste(3, 5, 1, 5)
    /\ calls[1].input.rating = 5
    /\ calls[1].input.equipment = <<>>
    /\ Includes(text, NoteLabels.Equipment \o <<" ">> \o Unset)
    /\ result.v.taste.acidity = 3
    /\ result.v.rating = 5
    /\ result.v.equipment = <<>>

\* C16, as stated: the same for every note whose equipment, method and bean
\* fields are single lines
C16_AsStated ==
    (pc = "done" /\ Len(calls) = 1) =>
        /\ result.t = "note"
        /\ result.v.rating = calls[1].input.rating
        /\ result.v.taste = ScoresOf(calls[1].input)
        /\ UnsetReadBackEmpty(calls[1].input, result.v)

=============================================================================
